---------------------------- MODULE Spec2Model ----------------------------
(***************************************************************************)
(* A model of the godbc N1QL driver (package n1ql): the request executor   *)
(* with endpoint failover and transaction stickiness (doClientRequest),    *)
(* the connection entry points with their argument encoding, the prepared  *)
(* statement with its retry-without-name, and the result stream (n1qlRows) *)
(* with its worker and its consumer.                                       *)
(*                                                                         *)
(* Statement texts are sequences of whitespace separated tokens; the text  *)
(* that goes on the wire is the tokens joined by single spaces.  A '?'     *)
(* placeholder is a token of its own.                                      *)
(***************************************************************************)
EXTENDS Integers, Sequences, FiniteSets, TLC

(***************************************************************************)
(* Bounds of the model.                                                    *)
(***************************************************************************)
\* the largest endpoint list a connection is opened with
MaxNodes == 3
\* the largest number of '?' placeholders in a statement
MaxMarks == 2
\* the largest number of arguments a caller supplies
MaxArgs == 2

\* the callers that may run requests on the one connection
Callers == {"A", "B"}

(***************************************************************************)
(* Program constants.                                                      *)
(***************************************************************************)
N1QL_DEFAULT_STATEMENT == <<"SELECT", "RAW", "1;">>

ErrInternalError == "N1QL: Internal Error"
errorNoConnection == "N1QL connection is already closed."

TX_NONE == 0
TX_START == 1
TX_COMMIT == 2
TX_ROLLBACK == 3

\* txStatementType looks at the first 32 characters of the trimmed text
TxPrefixLen == 32

(***************************************************************************)
(* Text helpers.                                                           *)
(***************************************************************************)
RECURSIVE Join(_)
\* the text of a token sequence: the tokens separated by single spaces
Join(toks) ==
    IF toks = <<>> THEN ""
    ELSE IF Len(toks) = 1 THEN toks[1]
    ELSE toks[1] \o " " \o Join(Tail(toks))

\* strings.ToLower on the tokens of the model's vocabulary
ToLower(t) ==
    CASE t = "START" -> "start"
      [] t = "START;" -> "start;"
      [] t = "BEGIN" -> "begin"
      [] t = "BEGIN;" -> "begin;"
      [] t = "Begin" -> "begin"
      [] t = "Commit;" -> "commit;"
      [] t = "Rollback" -> "rollback"
      [] t = "COMMIT" -> "commit"
      [] t = "COMMIT;" -> "commit;"
      [] t = "ROLLBACK" -> "rollback"
      [] t = "ROLLBACK;" -> "rollback;"
      [] t = "TRANSACTION" -> "transaction"
      [] t = "WORK" -> "work"
      [] t = "SELECT" -> "select"
      [] t = "RAW" -> "raw"
      [] t = "PREPARE" -> "prepare"
      [] OTHER -> t

TrimRightSemi_None(t) == t

\* strings.TrimRight(t, ";") on the (lower case) tokens of the vocabulary
TrimRightSemi(t) ==
    CASE t = "start;" -> "start"
      [] t = "begin;" -> "begin"
      [] t = "commit;" -> "commit"
      [] t = "rollback;" -> "rollback"
      [] t = "1;" -> "1"
      [] OTHER -> t

RECURSIVE Offset(_, _)
\* the position in Join(toks) at which token i starts (0-based)
Offset(toks, i) ==
    IF i = 1 THEN 0 ELSE Offset(toks, i - 1) + Len(toks[i - 1]) + 1

\* strings.Fields of the first TxPrefixLen characters: the tokens that start
\* inside the prefix (the last of them possibly cut short)
PrefixFields(toks) ==
    SelectSeq([i \in 1 .. Len(toks) |-> [tok |-> toks[i], off |-> Offset(toks, i)]],
              LAMBDA f : f.off < TxPrefixLen)

txStatementType(query) ==
    LET qf == PrefixFields(query)
        first == IF Len(qf) > 0 /\ Len(qf[1].tok) <= TxPrefixLen
                 THEN TrimRightSemi(ToLower(qf[1].tok))
                 ELSE ""
    IN  IF Len(qf) = 0 THEN TX_NONE
        ELSE IF first \in {"start", "begin"}
             THEN (IF Len(qf) > 1 THEN TX_START ELSE TX_NONE)
        ELSE IF first = "commit" THEN TX_COMMIT
        ELSE IF first = "rollback"
             THEN (IF Len(qf) < 3 THEN TX_ROLLBACK ELSE TX_NONE)
        ELSE TX_NONE

(***************************************************************************)
(* Argument encoding.                                                      *)
(***************************************************************************)
\* the positional marker prepareQuery writes for the n-th '?'
Marker(n) == "$" \o ToString(n)

RECURSIVE ReplaceMarks(_, _)
ReplaceMarks(toks, n) ==
    IF toks = <<>> THEN <<>>
    ELSE IF Head(toks) = "?"
         THEN <<Marker(n + 1)>> \o ReplaceMarks(Tail(toks), n + 1)
         ELSE <<Head(toks)>> \o ReplaceMarks(Tail(toks), n)

CountMarks(toks) == Cardinality({i \in 1 .. Len(toks) : toks[i] = "?"})

\* prepareQuery: every '?' becomes $1, $2, ...; returns the text and the count
prepareQuery(query) ==
    [query |-> ReplaceMarks(query, 0), count |-> CountMarks(query)]

\* the text of one argument: a string in double quotes, bytes verbatim,
\* everything else by its default representation
FormatArg(arg) ==
    IF arg.kind = "string" THEN "\"" \o arg.v \o "\"" ELSE arg.v

\* preparePositionalArgs: the first argCount arguments replace their
\* markers in the text, the others are returned as the left-over list
preparePositionalArgs(query, argCount, args) ==
    LET subs == {i \in 1 .. Len(args) : i - 1 < argCount}
        sub(tok) ==
            IF \E i \in subs : tok = Marker(i)
            THEN FormatArg(args[CHOOSE i \in subs : tok = Marker(i)])
            ELSE tok
    IN  [query |-> [i \in 1 .. Len(query) |-> sub(query[i])],
         args |-> [j \in 1 .. Len(args) - Cardinality(subs) |->
                      args[Cardinality(subs) + j]]]

RECURSIVE JoinComma(_)
JoinComma(strs) ==
    IF Len(strs) = 1 THEN strs[1] \o "]"
    ELSE strs[1] \o "," \o JoinComma(Tail(strs))

\* buildPositionalArgList: "[a1,a2,...]", or "" for no arguments
buildPositionalArgList(args) ==
    LET positionalArgs == [i \in 1 .. Len(args) |-> FormatArg(args[i])]
    IN  IF Len(positionalArgs) > 0 THEN "[" \o JoinComma(positionalArgs) ELSE ""

\* a nil map / an empty form
NoParams == [k \in {} |-> ""]

\* the package's configuration after SetQueryParams("txtimeout", "15s"),
\* which sets both the TxTimeout and the QueryParams entry
TxTimeout == "15s"
QueryParams == [txtimeout |-> TxTimeout]

\* setQueryParams: the caller's QueryParams but for the keys of txParms,
\* then txParms, an empty value deleting its key
setQueryParams(v, QP, txParms) ==
    LET qpKeys == {k \in DOMAIN QP : k \notin DOMAIN txParms}
        v1 == [k \in DOMAIN v \cup qpKeys |-> IF k \in qpKeys THEN QP[k] ELSE v[k]]
        setKeys == {k \in DOMAIN txParms : txParms[k] # ""}
        delKeys == {k \in DOMAIN txParms : txParms[k] = ""}
    IN  [k \in (DOMAIN v1 \ delKeys) \cup setKeys |->
            IF k \in setKeys THEN txParms[k] ELSE v1[k]]


(***************************************************************************)
(* The server's answers.  A response is the HTTP status and what the body  *)
(* decodes to: whether it is JSON at all, its "status", whether it has an  *)
(* "errors" key, its "results" array and its "signature" text.             *)
(***************************************************************************)
TxIds == {"t1", "t2"}

NoResp ==
    [StatusCode |-> 0, json |-> FALSE, status |-> "", errors |-> FALSE,
     results |-> <<>>, signature |-> ""]

OkResp(results, signature) ==
    [StatusCode |-> 200, json |-> TRUE, status |-> "success", errors |-> FALSE,
     results |-> results, signature |-> signature]

Responses ==
    {OkResp(<<[kind |-> "row", txid |-> "", name |-> ""]>>, "{\"*\":\"*\"}"),
     OkResp(<<>>, "null"),
     OkResp(<<[kind |-> "plan", txid |-> "", name |-> "p1"]>>, "{\"*\":\"*\"}"),
     [StatusCode |-> 200, json |-> TRUE, status |-> "errors", errors |-> TRUE,
      results |-> <<>>, signature |-> ""],
     [StatusCode |-> 200, json |-> FALSE, status |-> "", errors |-> FALSE,
      results |-> <<>>, signature |-> ""],
     [StatusCode |-> 404, json |-> TRUE, status |-> "fatal", errors |-> TRUE,
      results |-> <<>>, signature |-> ""]}
    \cup {OkResp(<<[kind |-> "tx", txid |-> t, name |-> ""]>>, "null") : t \in TxIds}

\* getTxid: the txid of results[0] of a 200, decodable, successful response
getTxid(resp) ==
    IF resp.StatusCode # 200 THEN ""
    ELSE IF ~resp.json THEN ""
    ELSE IF resp.status # "success" THEN ""
    ELSE IF Len(resp.results) > 0 THEN resp.results[1].txid
    ELSE ""

\* the body has a "results" key
HasResults(resp) == "results" \in DOMAIN resp

\* getTxid asserts "results" to be an array and results[0]["txid"] to be a
\* string: a body without results, or a row without txid, panics
getTxidPanics(resp) ==
    /\ resp.StatusCode = 200
    /\ resp.json
    /\ resp.status = "success"
    /\ \/ ~HasResults(resp)
       \/ /\ Len(resp.results) > 0
          /\ resp.results[1].kind # "tx"

(***************************************************************************)
(* The inputs: endpoints, statements, arguments.                           *)
(***************************************************************************)
EndpointName(i) == "http://n" \o ToString(i) \o ":8093/query/service"

\* a statement with n placeholders
SelectStmt(n) == <<"select">> \o [i \in 1 .. n |-> "?"]

Statements ==
    {N1QL_DEFAULT_STATEMENT,
     <<"START", "TRANSACTION">>,
     <<"commit;">>,
     <<"ROLLBACK", "WORK">>,
     <<"rollback", "to", "savepoint", "s1">>}
    \cup {SelectStmt(n) : n \in 0 .. MaxMarks}

\* the i-th argument a caller supplies: a string, a number, bytes, ...
ArgVal(i) ==
    [kind |-> IF i % 3 = 1 THEN "string" ELSE IF i % 3 = 2 THEN "int" ELSE "bytes",
     v |-> "v" \o ToString(i)]

ArgList(n) == [i \in 1 .. n |-> ArgVal(i)]

ArgLists == {ArgList(n) : n \in 0 .. MaxArgs}

\* the statements that are called with arguments in the model
TakesArgs(query) == \E n \in 0 .. MaxMarks : query = SelectStmt(n)

ConnOps == {"Query", "QueryRaw", "Exec", "ExecRaw"}
StmtOps == {"StmtQuery", "StmtQueryRaw", "StmtExec", "StmtExecRaw"}

(***************************************************************************)
(* The state.                                                              *)
(***************************************************************************)
VARIABLES
    queryAPIs,     \* n1qlConn.queryAPIs: the live endpoints
    txid,          \* n1qlConn.txid
    txService,     \* n1qlConn.txService: the sticky endpoint
    stmt,          \* the n1qlStmt the callers share
    loc,           \* per caller: the entry point it runs and its locals
    hist           \* per caller: what the running call has done so far

\* the result stream of one query (n1qlRows) and its consumer
VARIABLES
    body,          \* N1QL_PASSTHROUGH_MODE, and whether the response had errors
    rows,          \* the fields of the n1qlRows object
    resultChan,    \* rows.resultChan: the buffer and whether it is closed
    worker,        \* the populateRows goroutine: its position and locals
    nexts,         \* the outcome of every Next() so far, in call order
    last           \* the consumer's latest call and what it returned

\* one application of txStatementType: the statement and its class
VARIABLES classified

\* the n1qlDB over the connection: whether db.conn is set, and the latest
\* of its calls that do not go through the connection, with the error, and
\* the Query or Exec under way, with its statement
VARIABLES db

\* a call of OpenN1QLConnection: its position, its locals, what it returned
VARIABLES opening

\* a call of stripurl: its argument, and what came of it
VARIABLES strip

connVars == <<queryAPIs, txid, txService, stmt, loc, hist>>
streamVars == <<body, rows, resultChan, worker, nexts, last>>
vars == <<connVars, streamVars, classified, db, opening, strip>>

NoStmt ==
    [exists |-> FALSE, prepared |-> "", signature |-> "", argCount |-> 0,
     name |-> ""]

\* forced records which branch of the routing the current iteration took;
\* the other fields are doClientRequest's parameters and locals and the
\* entry point's arguments and result
IdleLoc ==
    [pc |-> "idle", op |-> "none", args |-> <<>>, query |-> <<>>,
     requestValues |-> NoParams, stmtType |-> TX_NONE, numNodes |-> 0,
     selectedNode |-> 0, queryAPI |-> "", txParams |-> NoParams, argCount |-> 0,
     forced |-> FALSE,
     request |-> [url |-> "", form |-> NoParams],
     ret |-> [err |-> "", resp |-> NoResp]]

NoHist ==
    [A |-> 0, C |-> 0, args |-> <<>>, sent |-> 0, started |-> 0, attempts |-> <<>>,
     tried |-> <<>>, outcomes |-> <<>>, startAPIs |-> <<>>, startTxid |-> "",
     lastResp |-> NoResp, leftover |-> <<>>]

\* no query has produced a stream yet
NoStream ==
    /\ body = [mode |-> FALSE, errors |-> FALSE]
    /\ rows = [open |-> FALSE]
    /\ resultChan = [buf |-> <<>>, closed |-> FALSE]
    /\ worker = [pc |-> "none"]
    /\ nexts = <<>>
    /\ last = [op |-> "none"]

\* the n1qlDB that open() returns
NoCall == [op |-> "none", query |-> <<>>]

NoDB == db = [conn |-> TRUE, op |-> "none", err |-> "", call |-> NoCall]

\* OpenN1QLConnection has not been called
IdleOpening ==
    [pc |-> "none", name |-> <<>>, creds |-> [username |-> <<>>, password |-> <<>>],
     tls |-> "skip", direct |-> FALSE, perr |-> <<>>, queryAPIs |-> <<>>,
     sentTo |-> <<>>, resp |-> [StatusCode |-> 0, body |-> "none"],
     ret |-> [kind |-> "none", err |-> <<>>]]

NoOpening == opening = IdleOpening

\* stripurl has not been called
IdleStrip == [pc |-> "idle", input |-> <<>>, out |-> [panic |-> FALSE, deep |-> FALSE, s |-> <<>>]]

NoStrip == strip = IdleStrip

\* txStatementType has not been applied
NoClassified == classified = [query |-> <<>>, done |-> FALSE, type |-> TX_NONE]

InitConn(n) ==
    /\ queryAPIs = [i \in 1 .. n |-> EndpointName(i)]
    /\ txid = ""
    /\ txService = ""
    /\ stmt = NoStmt
    /\ loc = [c \in Callers |-> IdleLoc]
    /\ hist = [c \in Callers |-> NoHist]

Init ==
    /\ \E n \in 1 .. MaxNodes : InitConn(n)
    /\ NoStream
    /\ NoClassified
    /\ NoDB
    /\ NoOpening
    /\ NoStrip

(***************************************************************************)
(* n1qlStmt.prepareRequest and the judgement of a response by the          *)
(* perform* functions and Prepare.                                         *)
(***************************************************************************)
\* stmt.prepareRequest: the form of a prepared execution, or the error
stmtPrepareRequest(st, args, QP) ==
    LET named == [prepared |->
                    IF st.name # "" THEN "\"" \o st.name \o "\"" ELSE st.prepared]
        paStr == buildPositionalArgList(args)
        withArgs == IF Len(args) > 0 /\ Len(paStr) > 0
                    THEN [k \in {"prepared", "args"} |->
                            IF k = "args" THEN paStr ELSE named.prepared]
                    ELSE named
    IN  IF Len(args) < st.argCount
        THEN [err |-> "N1QL: Insufficient args", values |-> NoParams]
        ELSE [err |-> "", values |-> setQueryParams(withArgs, QP, NoParams)]

\* the request doClientRequest builds: prepareRequest for a statement text,
\* the encoded requestValues for a prepared execution
buildRequest(query, queryAPI, requestValues, QP, txParams) ==
    IF query # <<>>
    THEN [url |-> queryAPI,
          form |-> setQueryParams([statement |-> Join(query)], QP, txParams)]
    ELSE [url |-> queryAPI, form |-> requestValues]

\* json.Marshal(results[0]) of a prepare response
PlanBody(row) == "{\"name\":\"" \o row.name \o "\"}"

\* the error, if any, that the entry point makes of a response it was given
perform(op, resp) ==
    IF resp.StatusCode # 200 THEN "status"
    ELSE IF op \in {"QueryRaw", "ExecRaw", "StmtQueryRaw", "StmtExecRaw"} THEN ""
    ELSE IF ~resp.json THEN "decode"
    ELSE IF op \in {"Query", "StmtQuery"} THEN ""
    ELSE IF op \in {"Exec", "StmtExec"}
         THEN (IF resp.errors THEN "N1QL: Error executing query" ELSE "")
    ELSE \* Prepare
         IF resp.errors THEN "N1QL: Error preparing statement"
         ELSE IF ~HasResults(resp) THEN ErrInternalError
         ELSE IF Len(resp.results) = 0 THEN "N1QL: Unknown error, no prepared results returned"
         ELSE ""

\* Prepare asserts results[0]["name"] to be a string: a row without it panics
preparePanics(resp) ==
    /\ perform("Prepare", resp) = ""
    /\ resp.results[1].kind # "plan"

(***************************************************************************)
(* Entry points.                                                           *)
(***************************************************************************)
\* the call of doClientRequest(query, requestValues): its first line
StartRequest(l, query, requestValues) ==
    [l EXCEPT !.pc = "select", !.query = query, !.requestValues = requestValues,
              !.stmtType = txStatementType(query)]

StartHist(h, apis, tid) ==
    [h EXCEPT !.started = @ + 1, !.tried = <<>>, !.outcomes = <<>>,
              !.startAPIs = apis, !.startTxid = tid]

\* the entry point returns err (and resp) to its caller
Finish(l, err, resp) ==
    [l EXCEPT !.pc = "done", !.ret = [err |-> err, resp |-> resp]]

\* the condition under which the connection's entry points check the count
ChecksArgCount(args) == Len(args) > 0

\* n1qlConn.Query, QueryRaw, Exec, ExecRaw
ConnCall(c, op, query, args) ==
    /\ loc[c].pc = "idle"
    /\ LET pq == prepareQuery(query)
           ppa == preparePositionalArgs(pq.query, pq.count, args)
           l == [loc[c] EXCEPT !.op = op, !.args = args]
           h == [NoHist EXCEPT !.A = Len(args), !.C = CountMarks(query), !.args = args]
       IN  IF ChecksArgCount(args)
           THEN IF pq.count # Len(args)
                THEN /\ loc' = [loc EXCEPT ![c] = Finish(l, "Argument count mismatch", NoResp)]
                     /\ hist' = [hist EXCEPT ![c] = h]
                ELSE /\ loc' = [loc EXCEPT ![c] =
                                 StartRequest([l EXCEPT !.args = ppa.args], ppa.query, NoParams)]
                     /\ hist' = [hist EXCEPT ![c] = StartHist([h EXCEPT !.leftover = ppa.args], queryAPIs, txid)]
           ELSE /\ loc' = [loc EXCEPT ![c] = StartRequest(l, query, NoParams)]
                /\ hist' = [hist EXCEPT ![c] = StartHist(h, queryAPIs, txid)]
    /\ UNCHANGED <<queryAPIs, txid, txService, stmt>>

\* n1qlConn.Prepare, up to its doClientRequest
Prepare(c, query) ==
    /\ loc[c].pc = "idle"
    /\ LET pq == prepareQuery(<<"PREPARE">> \o query)
           l == [loc[c] EXCEPT !.op = "Prepare", !.argCount = pq.count]
           h == [NoHist EXCEPT !.C = pq.count]
       IN  /\ loc' = [loc EXCEPT ![c] = StartRequest(l, pq.query, NoParams)]
           /\ hist' = [hist EXCEPT ![c] = StartHist(h, queryAPIs, txid)]
    /\ UNCHANGED <<queryAPIs, txid, txService, stmt>>

\* a slip: the statement's plan is not looked at
PlanMissing_Never(st) == FALSE

\* if stmt.prepared == "": the statement has no plan body
PlanMissing(st) == st.prepared = ""

\* n1qlStmt.Query, QueryRaw, Exec, ExecRaw, up to the first perform*, by a
\* caller whose locals are l0
StmtCallFrom(c, l0, op, args) ==
    /\ stmt.exists
    /\ LET pr == stmtPrepareRequest(stmt, args, QueryParams)
           l == [l0 EXCEPT !.op = op, !.args = args]
           h == [NoHist EXCEPT !.A = Len(args), !.C = stmt.argCount, !.args = args]
       IN  IF PlanMissing(stmt)
           THEN /\ loc' = [loc EXCEPT ![c] =
                            Finish(l, "N1QL: Prepared statement not found", NoResp)]
                /\ hist' = [hist EXCEPT ![c] = h]
           ELSE IF pr.err # ""
           THEN /\ loc' = [loc EXCEPT ![c] = Finish(l, pr.err, NoResp)]
                /\ hist' = [hist EXCEPT ![c] = h]
           ELSE /\ loc' = [loc EXCEPT ![c] = StartRequest(l, <<>>, pr.values)]
                /\ hist' = [hist EXCEPT ![c] = StartHist(h, queryAPIs, txid)]
    /\ UNCHANGED <<queryAPIs, txid, txService, stmt>>

StmtCall(c, op, args) ==
    /\ loc[c].pc = "idle"
    /\ StmtCallFrom(c, loc[c], op, args)

\* n1qlStmt.Close
StmtClose(c) ==
    /\ loc[c].pc = "idle"
    /\ stmt.exists
    /\ stmt' = [stmt EXCEPT !.prepared = "", !.signature = "", !.argCount = 0]
    /\ UNCHANGED <<queryAPIs, txid, txService, loc, hist>>

\* the caller takes the result
Return(c) ==
    /\ loc[c].pc = "done"
    /\ loc' = [loc EXCEPT ![c] = IdleLoc]
    /\ hist' = [hist EXCEPT ![c] = NoHist]
    /\ UNCHANGED <<queryAPIs, txid, txService, stmt>>

(***************************************************************************)
(* doClientRequest, one step per shared read or write, and what the entry  *)
(* point does with its result.                                             *)
(***************************************************************************)
\* a slip: the open transaction is not looked at
UseSticky_Never(tid, query) == FALSE

\* a transaction is open and the statement is not the fixed no-op
UseSticky(tid, query) == tid # "" /\ query # N1QL_DEFAULT_STATEMENT

\* a slip: the last node is not recognised by the list's length
IsLastNode_NoCount(service, numNodes) == service # ""

\* a slip: the last node is not recognised by the open transaction
IsLastNode_NoService(service, numNodes) == numNodes = 1

\* "if this is the last node return with error"
IsLastNode(service, numNodes) == service # "" \/ numNodes = 1

\* a slip: the node at the head of the list is removed, not the failed one
RemoveAt_Head(apis, selectedNode) ==
    [i \in 1 .. Len(apis) - 1 |-> apis[i + 1]]

\* a slip: the node after the failed one leaves the list with it
RemoveAt_Two(apis, selectedNode) ==
    IF selectedNode + 2 <= Len(apis)
    THEN [i \in 1 .. Len(apis) - 2 |-> IF i <= selectedNode THEN apis[i] ELSE apis[i + 2]]
    ELSE [i \in 1 .. Len(apis) - 1 |-> apis[i]]

\* append(queryAPIs[:selectedNode], queryAPIs[selectedNode+1:]...)
RemoveAt(apis, selectedNode) ==
    [i \in 1 .. Len(apis) - 1 |-> IF i <= selectedNode THEN apis[i] ELSE apis[i + 1]]

\* a slip: the retry does not look at the cached name
ShouldRetry_AnyError(op, err, name) ==
    op \in {"StmtQuery", "StmtQueryRaw"} /\ err # ""

\* n1qlStmt.Query and QueryRaw: "retry once if we used a named prepared statement"
ShouldRetry(op, err, name) ==
    op \in {"StmtQuery", "StmtQueryRaw"} /\ err # "" /\ name # ""

\* a slip: commit and rollback leave the transaction context alone
TxAfter_NoClear(stmtType, resp, queryAPI, tid, service) ==
    IF stmtType = TX_START /\ getTxid(resp) # ""
    THEN [txid |-> getTxid(resp), txService |-> queryAPI]
    ELSE [txid |-> tid, txService |-> service]

\* a slip: commit and rollback clear the txid and keep the endpoint
TxAfter_KeepsService(stmtType, resp, queryAPI, tid, service) ==
    IF stmtType = TX_START /\ getTxid(resp) # ""
    THEN [txid |-> getTxid(resp), txService |-> queryAPI]
    ELSE IF stmtType = TX_COMMIT \/ stmtType = TX_ROLLBACK
    THEN [txid |-> "", txService |-> service]
    ELSE [txid |-> tid, txService |-> service]

\* the transaction context after a response to a statement of type stmtType
TxAfter(stmtType, resp, queryAPI, tid, service) ==
    IF stmtType = TX_START
    THEN (IF getTxid(resp) # ""
          THEN [txid |-> getTxid(resp), txService |-> queryAPI]
          ELSE [txid |-> tid, txService |-> service])
    ELSE IF stmtType = TX_COMMIT \/ stmtType = TX_ROLLBACK
    THEN [txid |-> "", txService |-> ""]
    ELSE [txid |-> tid, txService |-> service]

\* the entry point of caller c gets (resp, derr) from doClientRequest; tid
\* is the connection's txid after that call
Complete(c, l, h, resp, derr, tid) ==
    LET err == IF derr # "" THEN derr ELSE perform(l.op, resp)
        h1 == [h EXCEPT !.attempts = Append(@,
                  [form |-> l.request.form, url |-> l.request.url,
                   numNodes |-> l.numNodes, forced |-> l.forced,
                   stmtType |-> l.stmtType, resp |-> resp, derr |-> derr,
                   err |-> err])]
        raw == l.op \in {"QueryRaw", "ExecRaw", "StmtQueryRaw", "StmtExecRaw"}
        out == IF err = "" \/ (raw /\ derr = "") THEN resp ELSE NoResp
    IN  IF ShouldRetry(l.op, err, stmt.name)
        THEN LET st == [stmt EXCEPT !.name = ""]
                 pr == stmtPrepareRequest(st, l.args, QueryParams)
             IN  /\ stmt' = st
                 /\ IF pr.err # ""
                    THEN /\ loc' = [loc EXCEPT ![c] = Finish(l, pr.err, NoResp)]
                         /\ hist' = [hist EXCEPT ![c] = h1]
                    ELSE /\ loc' = [loc EXCEPT ![c] = StartRequest(l, <<>>, pr.values)]
                         /\ hist' = [hist EXCEPT ![c] = StartHist(h1, queryAPIs, tid)]
        ELSE IF l.op = "Prepare" /\ err = ""
        THEN IF preparePanics(resp)
             THEN /\ loc' = [loc EXCEPT ![c] = [l EXCEPT !.pc = "panic"]]
                  /\ hist' = [hist EXCEPT ![c] = h1]
                  /\ UNCHANGED stmt
             ELSE /\ stmt' = [exists |-> TRUE,
                              prepared |-> PlanBody(resp.results[1]),
                              signature |-> resp.signature,
                              argCount |-> l.argCount,
                              name |-> resp.results[1].name]
                  /\ loc' = [loc EXCEPT ![c] = Finish(l, "", resp)]
                  /\ hist' = [hist EXCEPT ![c] = h1]
        ELSE /\ loc' = [loc EXCEPT ![c] = Finish(l, err, out)]
             /\ hist' = [hist EXCEPT ![c] = h1]
             /\ UNCHANGED stmt

\* lines 520-529: the routing decision and the read of the list's length
SelectAPI(c) ==
    /\ loc[c].pc = "select"
    /\ LET l == loc[c]
       IN  IF UseSticky(txid, l.query)
           THEN LET txParams == [txid |-> txid, tximplicit |-> ""]
                IN  loc' = [loc EXCEPT ![c] =
                        [l EXCEPT !.pc = "do", !.txParams = txParams, !.forced = TRUE,
                                  !.queryAPI = txService, !.numNodes = 0,
                                  !.selectedNode = 0,
                                  !.request = buildRequest(l.query, txService,
                                      l.requestValues, QueryParams, txParams)]]
           ELSE loc' = [loc EXCEPT ![c] =
                        [l EXCEPT !.pc = "pick", !.forced = FALSE,
                                  !.txParams = IF l.stmtType = TX_START /\ TxTimeout # ""
                                               THEN [txtimeout |-> TxTimeout]
                                               ELSE NoParams,
                                  !.numNodes = Len(queryAPIs),
                                  !.selectedNode = 0, !.queryAPI = ""]]
    /\ UNCHANGED <<queryAPIs, txid, txService, stmt, hist>>

\* lines 531-553: rand.Intn(numNodes), the read of queryAPIs[selectedNode]
\* under the read lock, and the request
PickNode(c) ==
    /\ loc[c].pc = "pick"
    /\ LET l == loc[c]
       IN  IF l.numNodes = 0
           THEN loc' = [loc EXCEPT ![c] = [l EXCEPT !.pc = "panic"]]
           ELSE \E n \in 0 .. l.numNodes - 1 :
                   IF n >= Len(queryAPIs)
                   THEN loc' = [loc EXCEPT ![c] =
                                 [l EXCEPT !.pc = "panic", !.selectedNode = n]]
                   ELSE loc' = [loc EXCEPT ![c] =
                                 [l EXCEPT !.pc = "do", !.selectedNode = n,
                                           !.queryAPI = queryAPIs[n + 1],
                                           !.request = buildRequest(l.query,
                                               queryAPIs[n + 1], l.requestValues,
                                               QueryParams, l.txParams)]]
    /\ UNCHANGED <<queryAPIs, txid, txService, stmt, hist>>

Sent(h, l, outcome, resp) ==
    [h EXCEPT !.sent = @ + 1, !.tried = Append(@, l.queryAPI),
              !.outcomes = Append(@, outcome), !.lastResp = resp]

\* lines 555-566: client.Do fails at transport level
DoFail(c) ==
    /\ loc[c].pc = "do"
    /\ LET l == loc[c]
           h == Sent(hist[c], l, "fail", NoResp)
       IN  IF IsLastNode(txService, l.numNodes)
           THEN /\ txid' = ""
                /\ txService' = ""
                /\ Complete(c, l, h, NoResp, "N1QL: Query nodes not responding", "")
           ELSE /\ loc' = [loc EXCEPT ![c] = [l EXCEPT !.pc = "remove"]]
                /\ hist' = [hist EXCEPT ![c] = h]
                /\ UNCHANGED <<txid, txService, stmt>>
    /\ UNCHANGED <<queryAPIs>>

\* lines 562-566: the failed node leaves the list, under the write lock
RemoveNode(c) ==
    /\ loc[c].pc = "remove"
    /\ LET l == loc[c]
       IN  IF l.selectedNode + 1 > Len(queryAPIs)
           THEN /\ loc' = [loc EXCEPT ![c] = [l EXCEPT !.pc = "panic"]]
                /\ UNCHANGED queryAPIs
           ELSE /\ queryAPIs' = RemoveAt(queryAPIs, l.selectedNode)
                /\ loc' = [loc EXCEPT ![c] = [l EXCEPT !.pc = "select"]]
    /\ UNCHANGED <<txid, txService, stmt, hist>>

\* lines 555, 567-577: client.Do returns a response
DoResp(c, resp) ==
    /\ loc[c].pc = "do"
    /\ LET l == loc[c]
           h == Sent(hist[c], l, "ok", resp)
           tx == TxAfter(l.stmtType, resp, l.queryAPI, txid, txService)
       IN  IF l.stmtType = TX_START /\ getTxidPanics(resp)
           THEN /\ loc' = [loc EXCEPT ![c] = [l EXCEPT !.pc = "panic"]]
                /\ hist' = [hist EXCEPT ![c] = h]
                /\ UNCHANGED <<txid, txService, stmt>>
           ELSE /\ txid' = tx.txid
                /\ txService' = tx.txService
                /\ Complete(c, l, h, resp, "", tx.txid)
    /\ UNCHANGED <<queryAPIs>>

(***************************************************************************)
(* JSON values as encoding/json decodes them into interface{}: nil, bool,  *)
(* float64, string, []interface{} and map[string]interface{}.  Null is   *)
(* also Go's nil interface value.  The numbers of the model are integral.  *)
(***************************************************************************)
Null == [kind |-> "Null"]
JBool(b) == [kind |-> "Bool", b |-> b]
JNumber(n) == [kind |-> "Number", n |-> n]
JString(s) == [kind |-> "String", s |-> s]
JArray(elems) == [kind |-> "Array", elems |-> elems]
JObject(m) == [kind |-> "Object", m |-> m]

\* the bytes of the strings that are keys of an object in the model
Bytes(s) ==
    CASE s = "*" -> <<42>>
      [] s = "a" -> <<97>>
      [] s = "abv" -> <<97, 98, 118>>
      [] s = "b" -> <<98>>
      [] s = "c" -> <<99>>
      [] s = "code" -> <<99, 111, 100, 101>>
      [] s = "errors" -> <<101, 114, 114, 111, 114, 115>>
      [] s = "fa" -> <<102, 97>>
      [] s = "fb" -> <<102, 98>>
      [] s = "is_twenty" -> <<105, 115, 95, 116, 119, 101, 110, 116, 121>>
      [] s = "msg" -> <<109, 115, 103>>
      [] s = "name" -> <<110, 97, 109, 101>>
      [] s = "requestID" -> <<114, 101, 113, 117, 101, 115, 116, 73, 68>>
      [] s = "resultCount" -> <<114, 101, 115, 117, 108, 116, 67, 111, 117, 110, 116>>
      [] s = "signature" -> <<115, 105, 103, 110, 97, 116, 117, 114, 101>>
      [] s = "status" -> <<115, 116, 97, 116, 117, 115>>
      [] s = "x" -> <<120>>

RECURSIVE BytesLess(_, _)
\* the order of Go's strings: byte by byte, a proper prefix first
BytesLess(x, y) ==
    IF y = <<>> THEN FALSE
    ELSE IF x = <<>> THEN TRUE
    ELSE IF x[1] # y[1] THEN x[1] < y[1]
    ELSE BytesLess(Tail(x), Tail(y))

StrLess(s, t) == BytesLess(Bytes(s), Bytes(t))

RECURSIVE SortStrings_Descending(_)
SortStrings_Descending(S) ==
    IF S = {} THEN <<>>
    ELSE LET max == CHOOSE s \in S : \A t \in S \ {s} : StrLess(t, s)
         IN  <<max>> \o SortStrings_Descending(S \ {max})

RECURSIVE SortStrings(_)
\* sort.Strings of the strings of S (a map's keys, which are distinct)
SortStrings(S) ==
    IF S = {} THEN <<>>
    ELSE LET min == CHOOSE s \in S : \A t \in S \ {s} : StrLess(s, t)
         IN  <<min>> \o SortStrings(S \ {min})

RECURSIVE Marshal(_), MarshalElems(_), MarshalMembers(_, _)
\* json.Marshal: compact text, the members of an object in the order of
\* their sorted keys (no string of the model needs escaping)
Marshal(v) ==
    CASE v.kind = "Null" -> "null"
      [] v.kind = "Bool" -> (IF v.b THEN "true" ELSE "false")
      [] v.kind = "Number" -> ToString(v.n)
      [] v.kind = "String" -> "\"" \o v.s \o "\""
      [] v.kind = "Array" -> "[" \o MarshalElems(v.elems) \o "]"
      [] v.kind = "Object" ->
            "{" \o MarshalMembers(v.m, SortStrings(DOMAIN v.m)) \o "}"

MarshalElems(elems) ==
    IF elems = <<>> THEN ""
    ELSE IF Len(elems) = 1 THEN Marshal(elems[1])
    ELSE Marshal(elems[1]) \o "," \o MarshalElems(Tail(elems))

MarshalMembers(m, keys) ==
    IF keys = <<>> THEN ""
    ELSE LET member == "\"" \o keys[1] \o "\":" \o Marshal(m[keys[1]])
         IN  IF Len(keys) = 1 THEN member
             ELSE member \o "," \o MarshalMembers(m, Tail(keys))

\* decodeSignature: an object or a string is kept, anything else becomes
\* the signature {"*": "*"}
decodeSignature(signature) ==
    IF signature.kind \in {"Object", "String"} THEN signature
    ELSE JObject([k \in {"*"} |-> JString("*")])

\* a nil slice and a slice with elements
NilSlice == [isNil |-> TRUE, elems |-> <<>>]
Slice(elems) == [isNil |-> FALSE, elems |-> elems]

Columns_Descending(signature) ==
    CASE signature.kind = "Object" -> SortStrings_Descending(DOMAIN signature.m)
      [] signature.kind = "String" -> <<signature.s>>
      [] signature.kind = "Null" -> <<"null">>
      [] OTHER -> <<>>

\* n1qlRows.Columns: the column names of a signature
Columns(signature) ==
    CASE signature.kind = "Object" -> SortStrings(DOMAIN signature.m)
      [] signature.kind = "String" -> <<signature.s>>
      [] signature.kind = "Null" -> <<"null">>
      [] OTHER -> <<>>

\* the types a destination of Scan can have: *float64, *string, *bool, and
\* *int for every type Scan does not support
DestTypes == {"float64", "string", "bool", "int"}

\* a destination nothing was assigned to
Unset == [kind |-> "Unset"]

ScanValue_StringOnlyComposite(d, i, curVal) ==
    CASE d = "float64" ->
            IF curVal.kind = "Number" THEN [err |-> "", val |-> curVal]
            ELSE [err |-> "Cannot assign to *float64 at index " \o ToString(i)
                           \o " of Scan()", val |-> Unset]
      [] d = "string" ->
            IF curVal.kind = "String" THEN [err |-> "", val |-> curVal]
            ELSE IF curVal.kind \in {"Array", "Object"}
                 THEN [err |-> "", val |-> JString(Marshal(curVal))]
            ELSE [err |-> "Cannot assign to *string at index " \o ToString(i)
                           \o " of Scan()", val |-> Unset]
      [] d = "bool" ->
            IF curVal.kind = "Bool" THEN [err |-> "", val |-> curVal]
            ELSE [err |-> "Cannot assign to *bool at index " \o ToString(i)
                           \o " of Scan()", val |-> Unset]
      [] OTHER ->
            [err |-> "Unsupported destination type at parameter " \o ToString(i)
                      \o " of Scan().", val |-> Unset]

\* the body of Scan's loop for destination i (0-based) of type d: the error,
\* or the value assigned (the messages without their "from value %v" tail)
ScanValue(d, i, curVal) ==
    CASE d = "float64" ->
            IF curVal.kind = "Number" THEN [err |-> "", val |-> curVal]
            ELSE [err |-> "Cannot assign to *float64 at index " \o ToString(i)
                           \o " of Scan()", val |-> Unset]
      [] d = "string" ->
            IF curVal.kind = "String" THEN [err |-> "", val |-> curVal]
            ELSE [err |-> "", val |-> JString(Marshal(curVal))]
      [] d = "bool" ->
            IF curVal.kind = "Bool" THEN [err |-> "", val |-> curVal]
            ELSE [err |-> "Cannot assign to *bool at index " \o ToString(i)
                           \o " of Scan()", val |-> Unset]
      [] OTHER ->
            [err |-> "Unsupported destination type at parameter " \o ToString(i)
                      \o " of Scan().", val |-> Unset]

RECURSIVE ScanFrom(_, _, _, _)
\* Scan's loop from destination i (1-based) on: it stops at the first error
ScanFrom(dest, curValues, i, out) ==
    IF i > Len(dest) THEN [err |-> "", dest |-> out]
    ELSE LET one == ScanValue(dest[i], i - 1, curValues[i])
         IN  IF one.err # "" THEN [err |-> one.err, dest |-> out]
             ELSE ScanFrom(dest, curValues, i + 1, [out EXCEPT ![i] = one.val])

\* the body of Scan on the current row's values, with destinations of the
\* types dest: the error returned and what the destinations hold afterwards
ScanInto(curValues, dest) ==
    LET unset == [i \in 1 .. Len(dest) |-> Unset]
    IN  IF curValues.isNil THEN [err |-> "No current row.", dest |-> unset]
        ELSE IF Len(dest) > Len(curValues.elems)
             THEN [err |-> "Scan() asked for " \o ToString(Len(dest))
                            \o " values, but only "
                            \o ToString(Len(curValues.elems)) \o " are available.",
                   dest |-> unset]
        ELSE ScanFrom(dest, curValues.elems, 1, unset)

Scan_Fatal(r, dest) ==
    LET s == ScanInto(r.curValues, dest)
    IN  [rows |-> IF s.err # "" THEN [r EXCEPT !.iterError = s.err] ELSE r,
         err |-> s.err, dest |-> s.dest]

\* n1qlRows.Scan on the stream r: the stream afterwards, the error returned
\* and what the destinations hold
Scan(r, dest) ==
    LET s == ScanInto(r.curValues, dest)
    IN  [rows |-> r, err |-> s.err, dest |-> s.dest]

(***************************************************************************)
(* The response envelope of a query and the stream performQuery makes of   *)
(* it.                                                                     *)
(***************************************************************************)
\* the most result rows a response of the model carries
MaxRows == 2

\* the most calls of Next() the consumer makes that find the stream at its
\* end
MaxAfterEnd == 2

\* a key the envelope does not have
Absent == [kind |-> "Absent"]

Obj1(k, v) == JObject([x \in {k} |-> v])

\* signatures: of select name, abv, (ibu = 20) as is_twenty; of select [..]
\* as fa, {..} as fb; of select count(*) as c; of select raw; of a statement
\* without results; and one that is neither an object nor a string
BeerSignature ==
    JObject([k \in {"name", "abv", "is_twenty"} |->
                IF k = "name" THEN JString("json")
                ELSE IF k = "abv" THEN JString("json") ELSE JString("boolean")])
ComplexSignature == JObject([k \in {"fa", "fb"} |-> JString("json")])
CountSignature == Obj1("c", JString("number"))
RawSignature == JString("json")
OddSignature == JNumber(1)

Beer(name, abv, twenty) ==
    JObject([k \in {"name", "abv", "is_twenty"} |->
                IF k = "name" THEN JString(name)
                ELSE IF k = "abv" THEN JNumber(abv) ELSE JBool(twenty)])
Baltika == Beer("Baltika 6", 7, TRUE)
Estrella == Beer("Estrella Levante Clasica", 4, FALSE)
OneTwoThree == JArray(<<JNumber(1), JNumber(2), JNumber(3)>>)
AB == JObject([j \in {"a", "c"} |-> IF j = "a" THEN JString("b") ELSE JString("d")])
Complex == JObject([k \in {"fa", "fb"} |-> IF k = "fa" THEN OneTwoThree ELSE AB])
CountRow == Obj1("c", JNumber(38))

\* the rows a server sends under a signature, among them rows that do not
\* fit it
RowsOf(signature) ==
    CASE signature = BeerSignature -> {Baltika, Estrella}
      [] signature = ComplexSignature -> {Complex, Baltika, OneTwoThree}
      [] signature = CountSignature -> {CountRow}
      [] signature = RawSignature -> {JNumber(1), OneTwoThree}
      [] OTHER -> {Baltika}

Signatures ==
    {BeerSignature, ComplexSignature, CountSignature, RawSignature, Null,
     OddSignature}

SeqsUpTo(S, n) == UNION {[1 .. k -> S] : k \in 0 .. n}

ServerErrors ==
    JArray(<<JObject([k \in {"code", "msg"} |->
                         IF k = "code" THEN JNumber(5000) ELSE JString("x")])>>)

Metrics(n) == Obj1("resultCount", JNumber(n))

\* what "results" can be under a signature: an array of rows, an object
\* (which does not decode into a slice of rows), or missing
ResultsOf(signature) ==
    {JArray(rs) : rs \in SeqsUpTo(RowsOf(signature), MaxRows)}
    \cup {Obj1("a", JNumber(1)), Absent}

\* the bodies of the 200 responses of the model
Envelopes ==
    UNION {{[results |-> results, signature |-> signature, errors |-> errors,
             metrics |-> metrics, status |-> JString("success"),
             requestID |-> JString("r1")] :
                results \in ResultsOf(signature),
                errors \in {Absent, ServerErrors},
                metrics \in {Absent, Metrics(1)}} :
           signature \in Signatures}

\* json.Unmarshal of a key of the envelope into an interface{} variable
\* that was nil: a missing key leaves it nil
Unmarshal(raw) == IF raw = Absent THEN Null ELSE raw

\* performQuery dereferences the raw values it found: a key that is null
\* in the body, and "results" also when it is missing, is a nil pointer
performQueryPanics(envelope, mode) ==
    \/ envelope.results \in {Absent, Null}
    \/ envelope.errors = Null
    \/ mode /\ Null \in {envelope.metrics, envelope.status, envelope.requestID}

\* performQuery's signature variable after the loop over the envelope
signatureOf(envelope, mode) ==
    IF envelope.signature = Absent THEN Null
    ELSE IF envelope.signature # Null THEN decodeSignature(envelope.signature)
    ELSE IF mode THEN Obj1("*", JString("*"))
    ELSE Null

\* resultToRows: the new n1qlRows
resultToRows(results, signature, metrics, errors, extraVals) ==
    [results |-> results, signature |-> signature, extras |-> extraVals,
     metrics |-> metrics, errors |-> errors,
     passthrough |-> (metrics # Null /\ extraVals # Null),
     closed |-> FALSE, columns |-> <<>>, rowsSent |-> 0,
     curValues |-> NilSlice, iterError |-> ""]

\* performQuery from the decoded envelope on, mode being
\* N1QL_PASSTHROUGH_MODE
performQuery(envelope, mode) ==
    LET signature == signatureOf(envelope, mode)
        errs == Unmarshal(envelope.errors)
    IN  IF mode
        THEN LET extraVals ==
                     JObject([k \in {"requestID", "status", "signature"} |->
                                 IF k = "requestID" THEN Unmarshal(envelope.requestID)
                                 ELSE IF k = "status" THEN Unmarshal(envelope.status)
                                 ELSE signature])
             IN  resultToRows(envelope.results, signature,
                              Unmarshal(envelope.metrics), Obj1("errors", errs),
                              extraVals)
        ELSE resultToRows(envelope.results, signature, Null, errs, Null)

\* the worker resultToRows starts, about to decode; seen says that a write
\* of rows.closed is ordered before the worker's next read of it
NewWorker ==
    [pc |-> "decode", resultRows |-> <<>>, i |-> 1, err |-> "", recv |-> FALSE,
     seen |-> FALSE]

\* the consumer's latest call: what it was given and what it returned
\* (again: Close() had been called before this Close())
NoLast ==
    [op |-> "none", ok |-> FALSE, err |-> "", dest |-> <<>>, out |-> <<>>,
     cols |-> <<>>, panic |-> FALSE, again |-> FALSE]

\* the state when performQuery has returned the stream of a response
InitStream(envelopes, modes) ==
    /\ InitConn(1)
    /\ NoClassified
    /\ NoDB
    /\ NoOpening
    /\ NoStrip
    /\ \E envelope \in envelopes, mode \in modes :
          /\ ~performQueryPanics(envelope, mode)
          /\ body = [mode |-> mode, errors |-> envelope.errors # Absent]
          /\ rows = performQuery(envelope, mode)
    /\ resultChan = [buf |-> <<>>, closed |-> FALSE]
    /\ worker = NewWorker
    /\ nexts = <<>>
    /\ last = NoLast

InitRows == InitStream(Envelopes, BOOLEAN)

(***************************************************************************)
(* populateRows, the worker of a stream.  A send on resultChan waits for   *)
(* room in its buffer; the send on errChan, which has none, waits for the  *)
(* consumer to be in Next().                                               *)
(***************************************************************************)
\* make(chan interface{}, 1)
ChanCap == 1

\* an element of resultChan: the row, and where the worker took it from
Elem(val, from, idx) == [val |-> val, from |-> from, idx |-> idx]

\* a slip: a channel without a bound
Send_Unbounded(elem) ==
    resultChan' = [resultChan EXCEPT !.buf = Append(@, elem)]

\* a send on resultChan completes; after a receive that followed Close()
\* it orders the write of rows.closed before what the worker does next
Send(elem) ==
    /\ Len(resultChan.buf) < ChanCap
    /\ resultChan' = [resultChan EXCEPT !.buf = Append(@, elem)]

Synced(w) == [w EXCEPT !.seen = w.seen \/ w.recv]

\* the name encoding/json gives the type of a value in its errors
TypeName(v) ==
    CASE v.kind = "Object" -> "object"
      [] v.kind = "String" -> "string"
      [] v.kind = "Number" -> "number"
      [] v.kind = "Bool" -> "bool"
      [] OTHER -> "array"

\* resultsDecoder.Decode(&resultRows): only an array decodes
WorkerDecode ==
    /\ worker.pc = "decode"
    /\ worker' = IF rows.results.kind = "Array"
                 THEN [worker EXCEPT !.pc = "extras",
                                     !.resultRows = rows.results.elems]
                 ELSE [worker EXCEPT !.pc = "sendErr",
                                     !.err = "json: cannot unmarshal "
                                             \o TypeName(rows.results)
                                             \o " into Go value of type []interface {}"]
    /\ UNCHANGED <<body, rows, resultChan, nexts, last>>

WorkerExtras ==
    /\ worker.pc = "extras"
    /\ IF rows.extras # Null
       THEN /\ Send(Elem(rows.extras, "extras", 0))
            /\ worker' = Synced([worker EXCEPT !.pc = "metrics"])
       ELSE /\ worker' = [worker EXCEPT !.pc = "metrics"]
            /\ UNCHANGED resultChan
    /\ UNCHANGED <<body, rows, nexts, last>>

WorkerMetrics ==
    /\ worker.pc = "metrics"
    /\ IF rows.metrics # Null
       THEN /\ Send(Elem(rows.metrics, "metrics", 0))
            /\ worker' = Synced([worker EXCEPT !.pc = "loop"])
       ELSE /\ worker' = [worker EXCEPT !.pc = "loop"]
            /\ UNCHANGED resultChan
    /\ UNCHANGED <<body, rows, nexts, last>>

\* what the worker's read of rows.closed can give: the consumer writes the
\* flag without synchronisation, so until a channel operation orders the
\* write before the read, the read may still give false
ReadsOfClosed ==
    IF ~rows.closed THEN {FALSE}
    ELSE IF worker.seen THEN {TRUE}
    ELSE {TRUE, FALSE}

WorkerLoop_SkipsLast ==
    /\ worker.pc = "loop"
    /\ IF worker.i >= Len(worker.resultRows)
       THEN worker' = [worker EXCEPT !.pc = "errors"]
       ELSE \E closed \in ReadsOfClosed :
               worker' = [worker EXCEPT !.pc = IF closed THEN "errors" ELSE "row"]
    /\ UNCHANGED <<body, rows, resultChan, nexts, last>>

\* the head of the loop over resultRows
WorkerLoop ==
    /\ worker.pc = "loop"
    /\ IF worker.i > Len(worker.resultRows)
       THEN worker' = [worker EXCEPT !.pc = "errors"]
       ELSE \E closed \in ReadsOfClosed :
               worker' = [worker EXCEPT !.pc = IF closed THEN "errors" ELSE "row"]
    /\ UNCHANGED <<body, rows, resultChan, nexts, last>>

WorkerRow_Reversed ==
    /\ worker.pc = "row"
    /\ Send(Elem(worker.resultRows[Len(worker.resultRows) + 1 - worker.i],
                 "results", Len(worker.resultRows) + 1 - worker.i))
    /\ worker' = Synced([worker EXCEPT !.pc = "loop", !.i = @ + 1])
    /\ UNCHANGED <<body, rows, nexts, last>>

WorkerRow ==
    /\ worker.pc = "row"
    /\ Send(Elem(worker.resultRows[worker.i], "results", worker.i))
    /\ worker' = Synced([worker EXCEPT !.pc = "loop", !.i = @ + 1])
    /\ UNCHANGED <<body, rows, nexts, last>>

WorkerErrors_PassthroughOnly ==
    /\ worker.pc = "errors"
    /\ IF rows.errors # Null /\ rows.passthrough
       THEN /\ Send(Elem(rows.errors, "errors", 0))
            /\ worker' = Synced([worker EXCEPT !.pc = "close"])
       ELSE /\ worker' = [worker EXCEPT !.pc = "close"]
            /\ UNCHANGED resultChan
    /\ UNCHANGED <<body, rows, nexts, last>>

WorkerErrors ==
    /\ worker.pc = "errors"
    /\ IF rows.errors # Null
       THEN /\ Send(Elem(rows.errors, "errors", 0))
            /\ worker' = Synced([worker EXCEPT !.pc = "close"])
       ELSE /\ worker' = [worker EXCEPT !.pc = "close"]
            /\ UNCHANGED resultChan
    /\ UNCHANGED <<body, rows, nexts, last>>

\* close(rows.resultChan), and the worker returns
WorkerClose ==
    /\ worker.pc = "close"
    /\ resultChan' = [resultChan EXCEPT !.closed = TRUE]
    /\ worker' = [worker EXCEPT !.pc = "done"]
    /\ UNCHANGED <<body, rows, nexts, last>>

(***************************************************************************)
(* The consumer's calls: Next, Scan, Columns, Close, Err.                  *)
(***************************************************************************)
\* Err()
Err(r) == r.iterError

\* what Next() makes of a received row r: the values of the current row, or
\* the error, or a panic (an index beyond dest)
RowValues(r, cols, passthrough, rowsSent) ==
    LET numColumns == Len(cols)
        res(err, panic, dest) == [err |-> err, panic |-> panic, dest |-> dest]
    IN  IF numColumns = 1 THEN res("", FALSE, <<r>>)
        ELSE IF passthrough /\ rowsSent < 2
             THEN (IF numColumns = 0 THEN res("", TRUE, <<>>)
                   ELSE res("", FALSE,
                            [i \in 1 .. numColumns |->
                                IF i = 1 THEN r ELSE JString("")]))
        ELSE IF r.kind = "Object"
             THEN (IF Cardinality(DOMAIN r.m) > numColumns
                   THEN res("N1QL: More Colums than expected "
                            \o ToString(Cardinality(DOMAIN r.m)) \o " != "
                            \o ToString(numColumns), FALSE, <<>>)
                   ELSE res("", FALSE,
                            [i \in 1 .. numColumns |->
                                IF cols[i] \in DOMAIN r.m THEN r.m[cols[i]]
                                ELSE JString("")]))
        ELSE IF r.kind = "Array"
             THEN (IF Len(r.elems) > numColumns THEN res("", TRUE, <<>>)
                   ELSE res("", FALSE,
                            [i \in 1 .. numColumns |->
                                IF i <= Len(r.elems) THEN r.elems[i] ELSE Null]))
        ELSE res("", FALSE, [i \in 1 .. numColumns |-> Null])

\* the outcome of a Next(): what it returned, and which element of the
\* channel's traffic it took
Outcome(ok, from, idx) == [ok |-> ok, from |-> from, idx |-> idx]

\* Next() takes the row at the head of resultChan
NextRow ==
    /\ resultChan.buf # <<>>
    /\ LET elem == Head(resultChan.buf)
           cols == Columns(rows.signature)
           got == RowValues(elem.val, cols, rows.passthrough, rows.rowsSent)
       IN  /\ rows' = IF got.panic THEN [rows EXCEPT !.columns = cols]
                      ELSE IF got.err # ""
                      THEN [rows EXCEPT !.columns = cols, !.iterError = got.err]
                      ELSE [rows EXCEPT !.columns = cols, !.rowsSent = @ + 1,
                                        !.curValues = Slice(got.dest)]
           /\ last' = [NoLast EXCEPT !.op = "Next", !.panic = got.panic,
                                     !.ok = ~got.panic /\ got.err = "",
                                     !.err = got.err]
           /\ nexts' = IF got.panic THEN nexts
                       ELSE Append(nexts, Outcome(got.err = "", elem.from, elem.idx))
    /\ resultChan' = [resultChan EXCEPT !.buf = Tail(@)]
    /\ worker' = [worker EXCEPT !.recv = worker.recv \/ rows.closed]

\* Next() finds resultChan closed and empty
NextClosed ==
    /\ resultChan.buf = <<>>
    /\ resultChan.closed
    /\ rows' = [rows EXCEPT !.curValues = NilSlice]
    /\ last' = [NoLast EXCEPT !.op = "Next"]
    /\ nexts' = Append(nexts, Outcome(FALSE, "closed", 0))
    /\ UNCHANGED <<resultChan, worker>>

\* Next() receives the worker's error from errChan
NextErr ==
    /\ worker.pc = "sendErr"
    /\ rows' = [rows EXCEPT !.iterError = worker.err]
    /\ last' = [NoLast EXCEPT !.op = "Next", !.err = worker.err]
    /\ nexts' = Append(nexts, Outcome(FALSE, "err", 0))
    /\ worker' = [worker EXCEPT !.pc = "extras", !.seen = @ \/ rows.closed]
    /\ UNCHANGED resultChan

\* a call of Next(): it waits until one of the channels has something
RowsNext ==
    /\ ~last.panic
    /\ Cardinality({i \in 1 .. Len(nexts) : nexts[i].from = "closed"}) < MaxAfterEnd
    /\ (NextRow \/ NextClosed \/ NextErr)
    /\ UNCHANGED body

Close_DropsRow(r, ch) ==
    [rows |-> [r EXCEPT !.closed = TRUE, !.curValues = NilSlice],
     resultChan |-> ch, err |-> ""]

\* n1qlRows.Close: the stream and the channel after it, and its result
Close(r, ch) ==
    [rows |-> [r EXCEPT !.closed = TRUE], resultChan |-> ch, err |-> ""]

RowsClose ==
    /\ ~last.panic
    /\ LET c == Close(rows, resultChan)
       IN  /\ rows' = c.rows
           /\ resultChan' = c.resultChan
           /\ last' = [NoLast EXCEPT !.op = "Close", !.err = c.err,
                                      !.again = rows.closed]
    /\ UNCHANGED <<body, worker, nexts>>

\* a call of Columns() by the consumer
RowsColumns ==
    /\ ~last.panic
    /\ LET cols == Columns(rows.signature)
       IN  /\ rows' = [rows EXCEPT !.columns = cols]
           /\ last' = [NoLast EXCEPT !.op = "Columns", !.cols = cols]
    /\ UNCHANGED <<body, resultChan, worker, nexts>>

\* a call of Scan() with destinations of the types dest
RowsScan(dest) ==
    /\ ~last.panic
    /\ LET s == Scan(rows, dest)
       IN  /\ rows' = s.rows
           /\ last' = [NoLast EXCEPT !.op = "Scan", !.err = s.err, !.dest = dest,
                                      !.out = s.dest]
    /\ UNCHANGED <<body, resultChan, worker, nexts>>

\* the destinations the consumer of a stream scans into
DestLists ==
    {<<"float64", "bool", "string">>, <<"string", "string">>, <<"float64">>}

NextRows ==
    /\ \/ WorkerDecode
       \/ WorkerExtras
       \/ WorkerMetrics
       \/ WorkerLoop
       \/ WorkerRow
       \/ WorkerErrors
       \/ WorkerClose
       \/ RowsNext
       \/ RowsClose
       \/ RowsColumns
       \/ \E dest \in DestLists : RowsScan(dest)
    /\ UNCHANGED <<connVars, classified, db, opening, strip>>

SpecRows == InitRows /\ [][NextRows]_vars

(***************************************************************************)
(* A consumer that abandons its stream: it calls Next() some number of     *)
(* times, then Close(), and nothing after that.  The worker is a goroutine *)
(* of its own: the scheduler runs it whenever it can take a step.          *)
(***************************************************************************)
WorkerNext ==
    /\ \/ WorkerDecode
       \/ WorkerExtras
       \/ WorkerMetrics
       \/ WorkerLoop
       \/ WorkerRow
       \/ WorkerErrors
       \/ WorkerClose
    /\ UNCHANGED <<connVars, classified, db, opening, strip>>

NextAbandon ==
    \/ WorkerNext
    \/ /\ \/ ~rows.closed /\ RowsNext
          \/ ~rows.closed /\ RowsClose
       /\ UNCHANGED <<connVars, classified, db, opening, strip>>

SpecAbandon == InitRows /\ [][NextAbandon]_vars /\ WF_vars(WorkerNext)

(***************************************************************************)
(* Scan on rows of every kind of value: the streams of select raw v and    *)
(* of select v as fa, w as fb, and destinations of every type.  The        *)
(* consumer calls Scan() once after each Next().                           *)
(***************************************************************************)
\* the most destinations of a Scan() call
MaxDests == 2

\* a value of each kind in the variant (two of some)
ScanValues ==
    {Null, JBool(TRUE), JBool(FALSE), JNumber(7), JString("Baltika 6"),
     JString(""), OneTwoThree, AB, Complex}

Pair(v, w) == JObject([k \in {"fa", "fb"} |-> IF k = "fa" THEN v ELSE w])

ScanEnvelopes ==
    {[results |-> JArray(<<row>>), signature |-> RawSignature,
      errors |-> Absent, metrics |-> Absent, status |-> JString("success"),
      requestID |-> JString("r1")] : row \in ScanValues}
    \cup {[results |-> JArray(<<Pair(v, w)>>), signature |-> ComplexSignature,
            errors |-> Absent, metrics |-> Absent, status |-> JString("success"),
            requestID |-> JString("r1")] : v, w \in ScanValues}

InitScan == InitStream(ScanEnvelopes, {FALSE})

NextScan ==
    /\ \/ WorkerDecode
       \/ WorkerExtras
       \/ WorkerMetrics
       \/ WorkerLoop
       \/ WorkerRow
       \/ WorkerErrors
       \/ WorkerClose
       \/ RowsNext
       \/ /\ last.op = "Next"
          /\ \E dest \in SeqsUpTo(DestTypes, MaxDests) : RowsScan(dest)
    /\ UNCHANGED <<connVars, classified, db, opening, strip>>

SpecScan == InitScan /\ [][NextScan]_vars

(***************************************************************************)
(* txStatementType applied to one statement.                               *)
(***************************************************************************)
\* a token of 24 characters
LongToken == "aaaaaaaaaaaaaaaaaaaaaaaa"

\* first tokens: the keywords in lower, upper and mixed case, with and
\* without a trailing ';', and tokens that are no keyword
FirstTokens ==
    {"start", "START", "start;", "START;", "begin", "BEGIN", "begin;", "BEGIN;",
     "Begin", "commit", "COMMIT", "commit;", "COMMIT;", "Commit;", "rollback",
     "ROLLBACK", "rollback;", "ROLLBACK;", "Rollback", "select", "PREPARE",
     "savepoint"}

\* what follows the first token; after a long token the next one starts
\* beyond the prefix that txStatementType looks at
Tails ==
    {<<>>, <<"work">>, <<"TRANSACTION">>, <<"to", "savepoint">>, <<"work", "x">>,
     <<"to", "savepoint", "s1">>, <<LongToken, "x">>, <<LongToken, "x", "y">>}

TxInputs == {<<>>} \cup {<<first>> \o tail : first \in FirstTokens, tail \in Tails}

InitTx ==
    /\ InitConn(1)
    /\ NoStream
    /\ NoDB
    /\ NoOpening
    /\ NoStrip
    /\ \E query \in TxInputs :
          classified = [query |-> query, done |-> FALSE, type |-> TX_NONE]

\* stmtType := txStatementType(query)
Classify ==
    /\ ~classified.done
    /\ classified' = [classified EXCEPT !.done = TRUE,
                                        !.type = txStatementType(classified.query)]
    /\ UNCHANGED <<connVars, streamVars, db, opening, strip>>

NextTx == Classify

SpecTx == InitTx /\ [][NextTx]_vars

(***************************************************************************)
(* The specifications.                                                     *)
(***************************************************************************)
Step(c) ==
    \/ /\ loc[c].pc = "idle"
       /\ \E op \in ConnOps, query \in Statements, args \in ArgLists :
             /\ (args # <<>> => TakesArgs(query))
             /\ ConnCall(c, op, query, args)
    \/ /\ loc[c].pc = "idle"
       /\ \E query \in Statements : Prepare(c, query)
    \/ /\ loc[c].pc = "idle"
       /\ \E op \in StmtOps, args \in ArgLists : StmtCall(c, op, args)
    \/ StmtClose(c)
    \/ SelectAPI(c)
    \/ PickNode(c)
    \/ DoFail(c)
    \/ RemoveNode(c)
    \/ /\ loc[c].pc = "do"
       /\ \E resp \in Responses : DoResp(c, resp)
    \/ Return(c)

\* one caller at a time uses the connection
Next == Step("A") /\ UNCHANGED <<streamVars, classified, db, opening, strip>>

Spec == Init /\ [][Next]_vars

(***************************************************************************)
(* The n1qlDB over the connection.  A statement keeps its own reference to *)
(* the connection; the caller makes one call at a time, without arguments. *)
(***************************************************************************)
DBStatements == {<<"select">>, <<"START", "TRANSACTION">>, <<"commit;">>}

\* a response whose body has no "results" key
NoResultsResp ==
    [StatusCode |-> 200, json |-> TRUE, status |-> "success", errors |-> FALSE,
     signature |-> "null"]

DBResponses ==
    {OkResp(<<[kind |-> "row", txid |-> "", name |-> ""]>>, "{\"*\":\"*\"}"),
     OkResp(<<[kind |-> "plan", txid |-> "", name |-> "p1"]>>, "{\"*\":\"*\"}"),
     OkResp(<<[kind |-> "tx", txid |-> "t1", name |-> ""]>>, "null"),
     OkResp(<<>>, "null"),
     NoResultsResp,
     [StatusCode |-> 200, json |-> TRUE, status |-> "errors", errors |-> TRUE,
      results |-> <<>>, signature |-> ""]}

\* the calls of n1qlDB leave the connection's call in progress alone
DBCallOnly(c) ==
    /\ loc[c].pc = "idle"
    /\ UNCHANGED connVars

\* a slip: the call on a closed n1qlDB returns no error
DBClosed_NoError(c, op) ==
    /\ loc[c].pc = "idle"
    /\ ~db.conn
    /\ loc' = [loc EXCEPT ![c] = Finish([loc[c] EXCEPT !.op = op], "", NoResp)]
    /\ hist' = [hist EXCEPT ![c] = NoHist]
    /\ UNCHANGED <<queryAPIs, txid, txService, stmt, db>>

\* db.prepare, db.QueryRaw, db.ExecRaw: "if db.conn == nil"
DBClosed(c, op) ==
    /\ loc[c].pc = "idle"
    /\ ~db.conn
    /\ loc' = [loc EXCEPT ![c] =
                 Finish([loc[c] EXCEPT !.op = op], errorNoConnection, NoResp)]
    /\ hist' = [hist EXCEPT ![c] = NoHist]
    /\ UNCHANGED <<queryAPIs, txid, txService, stmt, db>>

\* n1qlDB.Prepare and PrepareExtended
DBPrepare(c, query) ==
    \/ DBClosed(c, "Prepare")
    \/ /\ db.conn
       /\ Prepare(c, query)
       /\ UNCHANGED db

\* n1qlDB.QueryRaw and ExecRaw
DBRaw(c, op, query) ==
    \/ DBClosed(c, op)
    \/ /\ db.conn
       /\ ConnCall(c, op, query, <<>>)
       /\ UNCHANGED db

\* a slip: Begin does not look at the transaction
BeginErr_IgnoresTx(conn, service) == IF ~conn THEN errorNoConnection ELSE ""

\* if db.conn == nil || !db.conn.TxService()
BeginErr(conn, service) ==
    IF ~conn \/ service = "" THEN errorNoConnection ELSE ""

\* n1qlDB.Begin (a call that leaves db as it is changes nothing at all)
DBBegin(c) ==
    /\ DBCallOnly(c)
    /\ db' = [db EXCEPT !.op = "Begin", !.err = BeginErr(db.conn, txService)]
    /\ db' # db

\* n1qlDB.Close; n1qlConn.Close does nothing and returns nil
DBClose(c) ==
    /\ DBCallOnly(c)
    /\ db' = [db EXCEPT !.conn = FALSE, !.op = "Close",
                         !.err = IF ~db.conn THEN errorNoConnection ELSE ""]
    /\ db' # db

InitDB ==
    /\ \E n \in 1 .. MaxNodes : InitConn(n)
    /\ NoStream
    /\ NoClassified
    /\ NoDB
    /\ NoOpening
    /\ NoStrip

DBStep(c) ==
    \/ /\ loc[c].pc = "idle"
       /\ \E query \in DBStatements : DBPrepare(c, query)
    \/ /\ loc[c].pc = "idle"
       /\ \E op \in {"QueryRaw", "ExecRaw"}, query \in DBStatements :
             DBRaw(c, op, query)
    \/ DBBegin(c)
    \/ DBClose(c)
    \/ /\ \/ /\ loc[c].pc = "idle"
             /\ \E op \in StmtOps : StmtCall(c, op, <<>>)
          \/ StmtClose(c)
          \/ SelectAPI(c)
          \/ PickNode(c)
          \/ DoFail(c)
          \/ RemoveNode(c)
          \/ /\ loc[c].pc = "do"
             /\ \E resp \in DBResponses : DoResp(c, resp)
          \/ Return(c)
       /\ UNCHANGED db

NextDB == DBStep("A") /\ UNCHANGED <<streamVars, classified, opening, strip>>

SpecDB == InitDB /\ [][NextDB]_vars

(***************************************************************************)
(* Every entry point of the n1qlDB, with the statements of a transaction.  *)
(* Query and Exec prepare the statement and then run the statement they    *)
(* got; Ping is QueryRaw of the fixed no-op statement.                     *)
(***************************************************************************)
CallStatements == {<<"START", "TRANSACTION">>, <<"commit;">>, <<"ROLLBACK">>}

CallResponses ==
    {OkResp(<<[kind |-> "plan", txid |-> "", name |-> "p1"]>>, "{\"*\":\"*\"}"),
     OkResp(<<[kind |-> "tx", txid |-> "t1", name |-> ""]>>, "null"),
     OkResp(<<>>, "null")}

\* n1qlDB.PrepareExtended: db.prepare, as Prepare
DBPrepareExtended(c, query) ==
    \/ DBClosed(c, "PrepareExtended")
    \/ /\ db.conn
       /\ Prepare(c, query)
       /\ UNCHANGED db

\* n1qlDB.Ping
DBPing(c) ==
    \/ DBClosed(c, "Ping")
    \/ /\ db.conn
       /\ ConnCall(c, "QueryRaw", N1QL_DEFAULT_STATEMENT, <<>>)
       /\ UNCHANGED db

\* n1qlDB.Query and Exec: stmt, err := db.Prepare(query)
DBQuery(c, op, query) ==
    \/ DBClosed(c, op)
    \/ /\ db.conn
       /\ Prepare(c, query)
       /\ db' = [db EXCEPT !.call = [op |-> op, query |-> query]]

\* n1qlDB.Query and Exec once Prepare has returned: the error of Prepare,
\* or stmt.Query(args...), stmt.Exec(args...) on the statement it gave
DBExecute(c) ==
    /\ loc[c].pc = "done"
    /\ loc[c].op = "Prepare"
    /\ db.call.op # "none"
    /\ IF loc[c].ret.err # ""
       THEN /\ loc' = [loc EXCEPT ![c].op = db.call.op]
            /\ db' = [db EXCEPT !.call = NoCall]
            /\ UNCHANGED <<queryAPIs, txid, txService, stmt, hist>>
       ELSE /\ StmtCallFrom(c, IdleLoc, "Stmt" \o db.call.op, <<>>)
            /\ UNCHANGED db

\* the caller takes the result of a call of the n1qlDB
DBReturn(c) ==
    /\ db.call.op = "none" \/ loc[c].op # "Prepare"
    /\ Return(c)
    /\ db' = [db EXCEPT !.call = NoCall]

CallsStep(c) ==
    \/ /\ loc[c].pc = "idle"
       /\ \E query \in CallStatements :
             \/ DBPrepare(c, query)
             \/ DBPrepareExtended(c, query)
             \/ \E op \in {"Query", "Exec"} : DBQuery(c, op, query)
             \/ \E op \in {"QueryRaw", "ExecRaw"} : DBRaw(c, op, query)
    \/ DBPing(c)
    \/ DBBegin(c)
    \/ DBClose(c)
    \/ DBExecute(c)
    \/ DBReturn(c)
    \/ /\ \/ SelectAPI(c)
          \/ PickNode(c)
          \/ DoFail(c)
          \/ RemoveNode(c)
          \/ /\ loc[c].pc = "do"
             /\ \E resp \in CallResponses : DoResp(c, resp)
       /\ UNCHANGED db

NextCalls == CallsStep("A") /\ UNCHANGED <<streamVars, classified, opening, strip>>

SpecCalls == InitDB /\ [][NextCalls]_vars

(***************************************************************************)
(* Two goroutines use one connection at the same time: each runs QueryRaw  *)
(* of a select, and the steps of their doClientRequest interleave.  The    *)
(* unlocked reads of len(conn.queryAPIs), conn.txid and conn.txService see *)
(* the value before or after a concurrent write.                           *)
(***************************************************************************)
ConcStatements == {<<"select">>}

ConcResponses == {OkResp(<<[kind |-> "row", txid |-> "", name |-> ""]>>, "{\"*\":\"*\"}")}

ConcStep(c) ==
    \/ /\ loc[c].pc = "idle"
       /\ \E query \in ConcStatements : ConnCall(c, "QueryRaw", query, <<>>)
    \/ SelectAPI(c)
    \/ PickNode(c)
    \/ DoFail(c)
    \/ RemoveNode(c)
    \/ /\ loc[c].pc = "do"
       /\ \E resp \in ConcResponses : DoResp(c, resp)
    \/ Return(c)

NextConc ==
    /\ \E c \in Callers : ConcStep(c)
    /\ UNCHANGED <<streamVars, classified, db, opening, strip>>

SpecConc == Init /\ [][NextConc]_vars

(***************************************************************************)
(* Two goroutines run transaction statements on one connection.  The test  *)
(* of conn.txid and the read of conn.txService are two unlocked reads: a   *)
(* write of the other goroutine can fall between them.  A request to an    *)
(* empty URL fails in the client.                                          *)
(***************************************************************************)
\* the endpoints of the connection the goroutines share
SharedNodes == 2

SharedStatements == {<<"START", "TRANSACTION">>, <<"commit;">>}

SharedResponses == {OkResp(<<[kind |-> "tx", txid |-> "t1", name |-> ""]>>, "null")}

\* lines 521-522: conn.txid is not empty, and is copied into the parameters
TestTxid(c) ==
    /\ loc[c].pc = "select"
    /\ UseSticky(txid, loc[c].query)
    /\ loc' = [loc EXCEPT ![c] =
                 [loc[c] EXCEPT !.pc = "sticky", !.forced = TRUE, !.numNodes = 0,
                                !.selectedNode = 0,
                                !.txParams = [txid |-> txid, tximplicit |-> ""]]]
    /\ UNCHANGED <<queryAPIs, txid, txService, stmt, hist>>

\* line 523 and lines 537-553: queryAPI = conn.txService, and the request
ReadTxService(c) ==
    /\ loc[c].pc = "sticky"
    /\ LET l == loc[c]
       IN  loc' = [loc EXCEPT ![c] =
                     [l EXCEPT !.pc = "do", !.queryAPI = txService,
                               !.request = buildRequest(l.query, txService,
                                   l.requestValues, QueryParams, l.txParams)]]
    /\ UNCHANGED <<queryAPIs, txid, txService, stmt, hist>>

SharedStep(c) ==
    \/ /\ loc[c].pc = "idle"
       /\ \E query \in SharedStatements : ConnCall(c, "QueryRaw", query, <<>>)
    \/ TestTxid(c)
    \/ ReadTxService(c)
    \/ /\ ~UseSticky(txid, loc[c].query)
       /\ SelectAPI(c)
    \/ PickNode(c)
    \/ DoFail(c)
    \/ RemoveNode(c)
    \/ /\ loc[c].pc = "do"
       /\ loc[c].queryAPI # ""
       /\ \E resp \in SharedResponses : DoResp(c, resp)
    \/ Return(c)

NextShared ==
    /\ \E c \in Callers : SharedStep(c)
    /\ UNCHANGED <<streamVars, classified, db, opening, strip>>

InitShared ==
    /\ InitConn(SharedNodes)
    /\ NoStream
    /\ NoClassified
    /\ NoDB
    /\ NoOpening
    /\ NoStrip

SpecShared == InitShared /\ [][NextShared]_vars

(***************************************************************************)
(* One goroutine sends statement texts with QueryRaw, in and out of a      *)
(* transaction.  The goroutine keeps running and client.Do comes back      *)
(* with a response or with a transport error: each step that can be taken  *)
(* is taken in the end.                                                    *)
(***************************************************************************)
FailoverStatements ==
    {<<"select">>, <<"START", "TRANSACTION">>, <<"commit;">>, N1QL_DEFAULT_STATEMENT}

FailoverResponses ==
    {OkResp(<<[kind |-> "row", txid |-> "", name |-> ""]>>, "{\"*\":\"*\"}"),
     OkResp(<<[kind |-> "tx", txid |-> "t1", name |-> ""]>>, "null")}

FailoverStep(c) ==
    \/ /\ loc[c].pc = "idle"
       /\ \E query \in FailoverStatements : ConnCall(c, "QueryRaw", query, <<>>)
    \/ SelectAPI(c)
    \/ PickNode(c)
    \/ DoFail(c)
    \/ RemoveNode(c)
    \/ /\ loc[c].pc = "do"
       /\ \E resp \in FailoverResponses : DoResp(c, resp)
    \/ Return(c)

NextFailover == FailoverStep("A") /\ UNCHANGED <<streamVars, classified, db, opening, strip>>

SpecFailover == Init /\ [][NextFailover]_vars /\ WF_vars(NextFailover)

(***************************************************************************)
(* Texts whose characters matter (URLs, error messages) are sequences of   *)
(* one-character strings, indexed from 0 as Go indexes a string.           *)
(***************************************************************************)
Letters ==
    {"a", "b", "c", "d", "e", "f", "g", "h", "i", "j", "k", "l", "m", "n", "o",
     "p", "q", "r", "s", "t", "u", "v", "w", "x", "y", "z", "A", "B", "C", "D",
     "E", "F", "G", "H", "I", "J", "K", "L", "M", "N", "O", "P", "Q", "R", "S",
     "T", "U", "V", "W", "X", "Y", "Z"}

Digits == {"0", "1", "2", "3", "4", "5", "6", "7", "8", "9"}

HexDigits ==
    Digits \cup {"a", "b", "c", "d", "e", "f", "A", "B", "C", "D", "E", "F"}

\* unicode.IsPunct and unicode.IsSymbol on the ASCII characters (the grave
\* accent, a symbol too, cannot be written in a string here)
IsPunct(c) ==
    c \in {"!", "\"", "#", "%", "&", "'", "(", ")", "*", ",", "-", ".", "/", ":",
           ";", "?", "@", "[", "\\", "]", "_", "{", "}"}

IsSymbol(c) == c \in {"$", "+", "<", "=", ">", "^", "|", "~"}

Min(S) == CHOOSE x \in S : \A y \in S : x <= y

Max(S) == CHOOSE x \in S : \A y \in S : x >= y

\* the offsets at which sub occurs in s
Occurrences(s, sub) ==
    {i \in 0 .. Len(s) - Len(sub) : SubSeq(s, i + 1, i + Len(sub)) = sub}

\* strings.Index and strings.LastIndex: -1 when sub does not occur
Index(s, sub) ==
    IF Occurrences(s, sub) = {} THEN -1 ELSE Min(Occurrences(s, sub))

LastIndex(s, sub) ==
    IF Occurrences(s, sub) = {} THEN -1 ELSE Max(Occurrences(s, sub))

Contains(s, sub) == Index(s, sub) >= 0

HasPrefix(s, prefix) ==
    Len(s) >= Len(prefix) /\ SubSeq(s, 1, Len(prefix)) = prefix

\* strings.TrimSuffix
TrimSuffix(s, suffix) ==
    IF /\ Len(s) >= Len(suffix)
       /\ SubSeq(s, Len(s) - Len(suffix) + 1, Len(s)) = suffix
    THEN SubSeq(s, 1, Len(s) - Len(suffix))
    ELSE s

\* s[lo:hi], and whether Go accepts its bounds
InBounds(s, lo, hi) == 0 <= lo /\ lo <= hi /\ hi <= Len(s)

Cut(s, lo, hi) == SubSeq(s, lo + 1, hi)

\* s[lo:]
From(s, lo) == SubSeq(s, lo + 1, Len(s))

\* s up to the first sep, all of s when there is none
Before(s, sep) == IF Index(s, sep) < 0 THEN s ELSE Cut(s, 0, Index(s, sep))

\* s from the first sep on, nothing when there is none
FromFirst(s, sep) == IF Index(s, sep) < 0 THEN <<>> ELSE From(s, Index(s, sep))

(***************************************************************************)
(* net/url's Parse, as far as the scheme, the host and the user            *)
(* information of its result go (no IPv6 literals, lower case schemes).    *)
(***************************************************************************)
\* the character of a percent escape, for the escapes of the model
Unhex(a, b) ==
    CASE <<a, b>> = <<"2", "1">> -> "!"
      [] <<a, b>> = <<"2", "0">> -> " "
      [] <<a, b>> = <<"2", "A">> -> "*"
      [] <<a, b>> = <<"3", "A">> -> ":"
      [] <<a, b>> = <<"4", "0">> -> "@"
      [] OTHER -> "?"

\* every '%' of s starts a well formed escape
RECURSIVE EscapesOK(_)
EscapesOK(s) ==
    IF s = <<>> THEN TRUE
    ELSE IF Head(s) = "%"
         THEN /\ Len(s) >= 3
              /\ s[2] \in HexDigits
              /\ s[3] \in HexDigits
              /\ EscapesOK(From(s, 3))
         ELSE EscapesOK(Tail(s))

\* unescape: each %XY becomes the character it encodes
RECURSIVE Unescape(_)
Unescape(s) ==
    IF s = <<>> THEN <<>>
    ELSE IF Head(s) = "%"
         THEN <<Unhex(s[2], s[3])>> \o Unescape(From(s, 3))
         ELSE <<Head(s)>> \o Unescape(Tail(s))

\* validUserinfo
ValidUserinfo(s) ==
    \A i \in 1 .. Len(s) :
        s[i] \in Letters \cup Digits
                 \cup {"-", ".", "_", ":", "~", "!", "$", "&", "'", "(", ")", "*",
                       "+", ",", ";", "=", "%", "@"}

\* validOptionalPort
ValidOptionalPort(port) ==
    \/ port = <<>>
    \/ /\ port[1] = ":"
       /\ \A i \in 2 .. Len(port) : port[i] \in Digits

\* the characters unescape leaves alone in a host, and its escapes: only
\* %25 and the escapes of non-ASCII bytes
RECURSIVE ValidHostChars(_)
ValidHostChars(s) ==
    IF s = <<>> THEN TRUE
    ELSE IF Head(s) = "%"
         THEN /\ Len(s) >= 3
              /\ s[2] \in HexDigits
              /\ s[3] \in HexDigits
              /\ s[2] \notin {"0", "1", "2", "3", "4", "5", "6", "7"}
                    \/ <<s[2], s[3]>> = <<"2", "5">>
              /\ ValidHostChars(From(s, 3))
         ELSE /\ Head(s) \in Letters \cup Digits
                             \cup {"-", "_", ".", "~", "!", "$", "&", "'", "(", ")",
                                   "*", "+", ",", ";", "=", ":", "[", "]", "<", ">",
                                   "\""}
              /\ ValidHostChars(Tail(s))

\* parseHost
ValidHost(host) ==
    /\ LastIndex(host, <<":">>) >= 0
          => ValidOptionalPort(From(host, LastIndex(host, <<":">>)))
    /\ ValidHostChars(host)

\* what Parse gives: the error, or the scheme, the host and the user
\* information (user: there is one)
URLError ==
    [err |-> TRUE, scheme |-> <<>>, host |-> <<>>, user |-> FALSE, uname |-> <<>>,
     pwd |-> <<>>]

URL(scheme, host, user, uname, pwd) ==
    [err |-> FALSE, scheme |-> scheme, host |-> host, user |-> user,
     uname |-> uname, pwd |-> pwd]

\* parseAuthority, the user information apart from the host
parseUserinfo(scheme, host, userinfo, colon) ==
    IF ~ValidUserinfo(userinfo) THEN URLError
    ELSE IF colon < 0
         THEN (IF ~EscapesOK(userinfo) THEN URLError
               ELSE URL(scheme, host, TRUE, Unescape(userinfo), <<>>))
    ELSE IF ~EscapesOK(Cut(userinfo, 0, colon)) \/ ~EscapesOK(From(userinfo, colon + 1))
         THEN URLError
    ELSE URL(scheme, host, TRUE, Unescape(Cut(userinfo, 0, colon)),
             Unescape(From(userinfo, colon + 1)))

\* parseAuthority: the host follows the last '@'
parseHostAt(scheme, authority, i) ==
    IF ~ValidHost(From(authority, i + 1)) THEN URLError
    ELSE IF i < 0 THEN URL(scheme, Unescape(authority), FALSE, <<>>, <<>>)
    ELSE parseUserinfo(scheme, Unescape(From(authority, i + 1)), Cut(authority, 0, i),
                       Index(Cut(authority, 0, i), <<":">>))

parseAuthority(scheme, authority) ==
    parseHostAt(scheme, authority, LastIndex(authority, <<"@">>))

\* parse, once the scheme is off: rest has no query
parseRest(scheme, rest) ==
    IF ~HasPrefix(rest, <<"/">>)
    THEN (IF scheme # <<>> THEN URL(scheme, <<>>, FALSE, <<>>, <<>>)
          ELSE IF Contains(Before(rest, <<"/">>), <<":">>) THEN URLError
          ELSE IF ~EscapesOK(rest) THEN URLError
          ELSE URL(<<>>, <<>>, FALSE, <<>>, <<>>))
    ELSE IF HasPrefix(rest, <<"/", "/">>)
            /\ (scheme # <<>> \/ ~HasPrefix(rest, <<"/", "/", "/">>))
         THEN (IF ~EscapesOK(FromFirst(From(rest, 2), <<"/">>)) THEN URLError
               ELSE parseAuthority(scheme, Before(From(rest, 2), <<"/">>)))
    ELSE IF ~EscapesOK(rest) THEN URLError
    ELSE URL(scheme, <<>>, FALSE, <<>>, <<>>)

\* getScheme: the offset of the first character that cannot be part of a
\* scheme, counted from 1; 0 when there is none
schemeEnd(u) ==
    IF \A i \in 1 .. Len(u) :
          u[i] \in Letters \/ (i > 1 /\ u[i] \in Digits \cup {"+", "-", "."})
    THEN 0
    ELSE Min({i \in 1 .. Len(u) :
                 ~(u[i] \in Letters \/ (i > 1 /\ u[i] \in Digits \cup {"+", "-", "."}))})

\* parse: a ':' at the start is an error, a ':' after a scheme ends it
parse(u, k) ==
    IF k = 1 /\ u[1] = ":" THEN URLError
    ELSE IF k > 1 /\ u[k] = ":"
         THEN parseRest(Cut(u, 0, k - 1), Before(From(u, k), <<"?">>))
    ELSE parseRest(<<>>, Before(u, <<"?">>))

\* url.Parse
ParseURL(rawURL) == parse(Before(rawURL, <<"#">>), schemeEnd(Before(rawURL, <<"#">>)))

(***************************************************************************)
(* stripurl.  A slice out of range panics; the recursion is followed to    *)
(* MaxDepth calls within the first and reported as too deep beyond that.   *)
(***************************************************************************)
MaxDepth == 3

Stripped(s) == [panic |-> FALSE, deep |-> FALSE, s |-> s]

StripPanic == [panic |-> TRUE, deep |-> FALSE, s |-> <<>>]

TooDeep == [panic |-> FALSE, deep |-> TRUE, s |-> <<>>]

\* the symbols and punctuation of pwd, '*' apart
CountSymbols(pwd) ==
    Cardinality({i \in 1 .. Len(pwd) :
                    (IsSymbol(pwd[i]) \/ IsPunct(pwd[i])) /\ pwd[i] # "*"})

\* inputstring[:lo] + "*" + inputstring[lo+n:], and the calls that follow
maskPassword(inputstring, lo, n, num) ==
    IF lo > Len(inputstring) \/ lo + n > Len(inputstring)
    THEN [kind |-> "panic", s |-> <<>>, num |-> 0]
    ELSE [kind |-> "masked",
          s |-> Cut(inputstring, 0, lo) \o <<"*">> \o From(inputstring, lo + n),
          num |-> num]

\* the user name and the password of the URL found in inputstring
maskUser(inputstring, urlpart) ==
    IF urlpart.err \/ ~urlpart.user
    THEN [kind |-> "same", s |-> inputstring, num |-> 0]
    ELSE maskPassword(inputstring,
                      Index(inputstring, urlpart.uname) + Len(urlpart.uname) + 1,
                      Len(urlpart.pwd), CountSymbols(urlpart.pwd))

\* inputurl := inputstring[startindex : startindex+endindex]
maskURL(inputstring, startindex, endindex) ==
    IF startindex < 0 \/ endindex < 0
    THEN [kind |-> "panic", s |-> <<>>, num |-> 0]
    ELSE maskUser(inputstring,
                  ParseURL(Cut(inputstring, startindex, startindex + endindex)))

\* stripurl up to its calls of itself
maskOnce(inputstring, startindex) ==
    maskURL(inputstring, startindex,
            IF startindex < 0 THEN -1
            ELSE Index(From(inputstring, startindex), <<" ">>))

RECURSIVE stripLoop(_, _, _)

\* the calls that follow a mask: the panic, or the loop on the masked string
stripMasked(once, depth) ==
    IF once.kind = "panic" THEN StripPanic
    ELSE stripLoop(once.s, once.num, depth)

\* one more turn of the loop after a call that returned
stripNext(r, num, depth) ==
    IF r.panic \/ r.deep THEN r ELSE stripLoop(r.s, num, depth)

\* for num > 0 { num = num - 1; inputstring = stripurl(inputstring) }, with
\* depth nested calls of stripurl to go
stripLoop(inputstring, num, depth) ==
    IF num = 0 THEN Stripped(inputstring)
    ELSE IF depth = 0 THEN TooDeep
    ELSE stripNext(stripMasked(maskOnce(inputstring,
                                        Index(inputstring, <<"h", "t", "t", "p">>)),
                               depth - 1),
                   num - 1, depth)

stripurl(inputstring) == stripLoop(inputstring, 1, MaxDepth + 1)

(***************************************************************************)
(* OpenN1QLConnection.  What go-couchbase, net/http and the servers do is  *)
(* the environment's choice: whether the name is a cluster endpoint, the   *)
(* query services found, and the outcome of the no-op statement.           *)
(***************************************************************************)
N1QL_SERVICE_ENDPOINT ==
    <<"/", "q", "u", "e", "r", "y", "/", "s", "e", "r", "v", "i", "c", "e">>

schemestring == <<":", "/", "/">>

\* the texts of the errors of OpenN1QLConnection
OpenError(which) ==
    CASE which = "invalid" ->
        <<" ", "N", "1", "Q", "L", ":", " ", "I", "n", "v", "a", "l", "i",
          "d", " ", "q", "u", "e", "r", "y", " ", "s", "e", "r", "v", "i",
          "c", "e", " ", "e", "n", "d", "p", "o", "i", "n", "t", ".">>
      [] which = "both" ->
        <<"N", "1", "Q", "L", ":", " ", "N", "e", "e", "d", " ", "t", "o",
          " ", "p", "a", "s", "s", " ", "b", "o", "t", "h", " ", "c", "e",
          "r", "t", "f", "i", "l", "e", " ", "a", "n", "d", " ", "k", "e",
          "y", "f", "i", "l", "e">>
      [] which = "services" ->
        <<"N", "1", "Q", "L", ":", " ", "F", "a", "i", "l", "e", "d", " ",
          "t", "o", " ", "g", "e", "t", " ", "N", "o", "d", "e", "S", "e",
          "r", "v", "i", "c", "e", "s", " ", "l", "i", "s", "t", ":", " ">>
      [] which = "none" ->
        <<"N", "1", "Q", "L", ":", " ", "N", "o", " ", "N", "1", "Q", "L",
          " ", "s", "e", "r", "v", "i", "c", "e", " ", "f", "o", "u", "n",
          "d", " ", "o", "n", " ", "t", "h", "i", "s", " ", "c", "l", "u",
          "s", "t", "e", "r">>
      [] which = "request" ->
        <<"E", "r", "r", "o", "r", " ", "c", "r", "e", "a", "t", "i", "n",
          "g", " ", "H", "T", "T", "P", " ", "r", "e", "q", "u", "e", "s",
          "t", ":", " ">>
      [] which = "endpoint" ->
        <<"N", "1", "Q", "L", ":", " ", "U", "n", "a", "b", "l", "e", " ",
          "t", "o", " ", "c", "o", "n", "n", "e", "c", "t", " ", "t", "o",
          " ", "e", "n", "d", "p", "o", "i", "n", "t", " ">>
      [] which = "status" ->
        <<"N", "1", "Q", "L", ":", " ", "U", "n", "a", "b", "l", "e", " ",
          "t", "o", " ", "c", "o", "n", "n", "e", "c", "t", " ", "t", "o",
          " ", "N", "1", "Q", "L", " ", "e", "n", "d", "p", "o", "i", "n",
          "t", ":", " ">>
      [] which = "http" ->
        <<" ", "\n", "H", "T", "T", "P", " ", "E", "R", "R", ":", " ">>
      [] which = "read" ->
        <<"N", "1", "Q", "L", ":", " ", "F", "a", "i", "l", "e", "d", " ",
          "t", "o", " ", "r", "e", "a", "d", " ", "r", "e", "s", "p", "o",
          "n", "s", "e", " ", "b", "o", "d", "y", " ", "f", "r", "o", "m",
          " ", "s", "e", "r", "v", "e", "r", ".", " ", "E", "r", "r", "o",
          "r", " ">>
      [] which = "parse" ->
        <<"N", "1", "Q", "L", ":", " ", "F", "a", "i", "l", "e", "d", " ",
          "t", "o", " ", "p", "a", "r", "s", "e", " ", "r", "e", "s", "p",
          "o", "n", "s", "e", ".", " ", "E", "r", "r", "o", "r", " ">>
      [] OTHER ->
        <<"N", "1", "Q", "L", ":", " ", "C", "o", "n", "n", "e", "c", "t",
          "i", "o", "n", " ", "e", "r", "r", "o", "r", ".", " ">>

\* texts made outside the driver: a failed request names its URL between
\* quotes; the other failures, the status line and the server's message
LibFailed(op, url) ==
    op \o <<" ", "\"">> \o url \o <<"\"", ":", " ", "E", "O", "F">>

LibText(which) ==
    CASE which = "unauthorized" ->
        <<"H", "T", "T", "P", " ", "e", "r", "r", "o", "r", " ", "4", "0",
          "1", " ", "U", "n", "a", "u", "t", "h", "o", "r", "i", "z", "e",
          "d">>
      [] which = "json" ->
        <<"i", "n", "v", "a", "l", "i", "d", " ", "c", "h", "a", "r", "a",
          "c", "t", "e", "r", " ", "'", "x", "'">>
      [] which = "cert" ->
        <<"t", "l", "s", ":", " ", "f", "a", "i", "l", "e", "d", " ", "t",
          "o", " ", "f", "i", "n", "d", " ", "a", "n", "y", " ", "P", "E",
          "M", " ", "d", "a", "t", "a">>
      [] which = "eof" ->
        <<"u", "n", "e", "x", "p", "e", "c", "t", "e", "d", " ", "E", "O",
          "F">>
      [] which = "401" ->
        <<"4", "0", "1", " ", "U", "n", "a", "u", "t", "h", "o", "r", "i",
          "z", "e", "d">>
      [] OTHER ->
        <<"M", "e", "s", "s", "a", "g", "e", " ", ":", " ", "b", "a", "d">>

\* the names Open is given, and the credentials of SetUsernamePassword
OpenNames ==
    {<<>>,
     <<"h", "t", "t", "p", ":", "/", "/", "h">>,
     <<"h", "t", "t", "p", ":", "/", "/", "h", "/">>,
     <<"h", "t", "t", "p", "s", ":", "/", "/", "h">>}

OpenCreds ==
    {[username |-> <<>>, password |-> <<>>],
     [username |-> <<"u">>, password |-> <<"p", "w">>],
     [username |-> <<"u">>, password |-> <<"p", "!">>]}

\* the endpoints discoverN1QLService makes of the cluster's node services
Discovered(i) ==
    <<"h", "t", "t", "p", ":", "/", "/", "n">> \o <<ToString(i)>> \o
    <<":", "8", "0", "9", "3", "/", "q", "u", "e", "r", "y", "/", "s", "e",
      "r", "v", "i", "c", "e">>

\* skipVerify, or certFile and keyFile: one without the other, a pair that
\* does not load, a pair that loads
TLSConfigs == {"skip", "both", "cert", "ok"}

hasUsernamePassword(creds) == creds.username # <<>> \/ creds.password # <<>>

\* lines 372-378: the credentials are put into the name
WithCredentials(name, creds) ==
    LET newUrl == ParseURL(name)
    IN  IF hasUsernamePassword(creds) /\ ~newUrl.err
        THEN newUrl.scheme \o schemestring \o creds.username \o <<":">>
                 \o creds.password \o <<"@">> \o newUrl.host
        ELSE name

\* the name without user information, as a library may print it
Bare(name) ==
    LET u == ParseURL(name)
    IN  IF u.err THEN name ELSE u.scheme \o schemestring \o u.host

\* Open returns the error err
OpenFails(o, err) ==
    [o EXCEPT !.pc = "done", !.ret = [kind |-> "err", err |-> err]]

\* lines 331-378: the name, the TLS configuration, the credentials
OpenStart ==
    /\ opening.pc = "start"
    /\ opening' =
         IF opening.name = <<>> THEN OpenFails(opening, OpenError("invalid"))
         ELSE IF HasPrefix(opening.name, <<"h", "t", "t", "p", "s">>)
                 /\ opening.tls = "both"
              THEN OpenFails(opening, OpenError("both"))
         ELSE IF HasPrefix(opening.name, <<"h", "t", "t", "p", "s">>)
                 /\ opening.tls = "cert"
              THEN OpenFails(opening, LibText("cert"))
         ELSE [opening EXCEPT !.pc = "connect",
                              !.name = WithCredentials(opening.name, opening.creds)]

\* the paths go-couchbase asks the cluster for
Pools == <<"/", "p", "o", "o", "l", "s">>

NodeServices ==
    <<"/", "d", "e", "f", "a", "u", "l", "t", "/", "n", "o", "d", "e", "S",
      "e", "r", "v", "i", "c", "e", "s">>

\* lines 379-390: couchbase.Connect(name) succeeds, or fails with perr
OpenConnect ==
    /\ opening.pc = "connect"
    /\ \/ opening' = [opening EXCEPT !.pc = "discover"]
       \/ \E perr \in {LibText("unauthorized"),
                       LibFailed(<<"G", "e", "t">>, opening.name \o Pools),
                       LibFailed(<<"G", "e", "t">>, Bare(opening.name) \o Pools)} :
             opening' =
               IF Contains(perr, <<"U", "n", "a", "u", "t", "h", "o", "r", "i", "z", "e", "d">>)
               THEN OpenFails(opening, perr)
               ELSE LET name == TrimSuffix(opening.name, <<"/">>)
                    IN  [opening EXCEPT !.pc = "noop", !.name = name,
                                        !.direct = TRUE, !.perr = perr,
                                        !.queryAPIs = <<name \o N1QL_SERVICE_ENDPOINT>>]

\* lines 396-414: the node services of the cluster and their query endpoints
OpenDiscover ==
    /\ opening.pc = "discover"
    /\ \/ opening' = OpenFails(opening,
              OpenError("services")
                  \o LibFailed(<<"G", "e", "t">>,
                               Bare(opening.name) \o Pools \o NodeServices))
       \/ \E n \in 0 .. MaxNodes :
             opening' =
               IF n <= 0 THEN OpenFails(opening, OpenError("none"))
               ELSE [opening EXCEPT !.pc = "noop",
                                    !.queryAPIs = [i \in 1 .. n |-> Discovered(i)]]

\* the body of the response: one that cannot be read to its end, one that is
\* not JSON, an object with errors, an object without
Bodies == {"unreadable", "garbage", "errors", "ok"}

\* a slip: the status of the response is not looked at
NoopVerdict_AnyStatus(direct, resp) ==
    IF direct /\ resp.body = "unreadable" THEN "read"
    ELSE IF direct /\ resp.body = "garbage" THEN "parse"
    ELSE IF direct /\ resp.body = "errors" THEN "errors"
    ELSE "conn"

\* lines 435-460: what Open makes of the response to the no-op statement
NoopVerdict(direct, resp) ==
    IF resp.StatusCode # 200 THEN "status"
    ELSE IF direct /\ resp.body = "unreadable" THEN "read"
    ELSE IF direct /\ resp.body = "garbage" THEN "parse"
    ELSE IF direct /\ resp.body = "errors" THEN "errors"
    ELSE "conn"

\* lines 417-460: the no-op statement goes to queryAPIs[0]
OpenNoop ==
    /\ opening.pc = "noop"
    /\ LET o == [opening EXCEPT !.sentTo = opening.queryAPIs[1]]
       IN  IF ParseURL(opening.queryAPIs[1]).err
           THEN opening' = OpenFails(opening,
                    OpenError("request")
                        \o LibFailed(<<"p", "a", "r", "s", "e">>, opening.queryAPIs[1]))
           ELSE \/ \E err \in {LibFailed(<<"P", "o", "s", "t">>, opening.queryAPIs[1])} :
                      LET stripped == stripurl(IF opening.direct THEN opening.perr ELSE err)
                      IN  opening' =
                            IF stripped.panic \/ stripped.deep
                            THEN [o EXCEPT !.pc = "done",
                                           !.ret = [kind |-> "panic", err |-> <<>>]]
                            ELSE OpenFails(o, OpenError("endpoint") \o opening.name
                                                  \o <<":", " ">> \o stripped.s)
                \/ \E StatusCode \in {200, 401}, content \in Bodies :
                      LET resp == [StatusCode |-> StatusCode, body |-> content]
                          verdict == NoopVerdict(opening.direct, resp)
                          r == [o EXCEPT !.resp = resp]
                      IN  opening' =
                            CASE verdict = "status" ->
                                   OpenFails(r, OpenError("status") \o opening.queryAPIs[1]
                                                   \o OpenError("http") \o LibText("401"))
                              [] verdict = "read" ->
                                   OpenFails(r, OpenError("read") \o LibText("eof"))
                              [] verdict = "parse" ->
                                   OpenFails(r, OpenError("parse") \o LibText("json"))
                              [] verdict = "errors" ->
                                   OpenFails(r, OpenError("errors") \o LibText("msg"))
                              [] OTHER ->
                                   [r EXCEPT !.pc = "done",
                                             !.ret = [kind |-> "conn", err |-> <<>>]]

InitOpen ==
    /\ InitConn(1)
    /\ NoStream
    /\ NoClassified
    /\ NoDB
    /\ NoStrip
    /\ \E name \in OpenNames, creds \in OpenCreds, tls \in TLSConfigs :
          opening = [IdleOpening EXCEPT !.pc = "start", !.name = name,
                                      !.creds = creds, !.tls = tls]

NextOpen ==
    /\ \/ OpenStart
       \/ OpenConnect
       \/ OpenDiscover
       \/ OpenNoop
    /\ UNCHANGED <<connVars, streamVars, classified, db, strip>>

SpecOpen == InitOpen /\ [][NextOpen]_vars

(***************************************************************************)
(* stripurl on its own: the argument is drawn from the texts below, which  *)
(* are put together from what comes before a URL, its scheme, its          *)
(* user-info, its host and what follows it.                                *)
(***************************************************************************)
StripPrefixes == {<<>>, <<"G", "e", "t", " ">>}

StripSchemes == {<<>>, <<"h", "t", "t", "p", ":", "/", "/">>, <<"h", "t", "t", "p", "s", ":", "/", "/">>}

StripUsers == {<<>>, <<"u", "@">>, <<"u", ":", "p", "w", "@">>, <<"u", ":", "p", "%", "4", "0", "w", "@">>, <<"u", ":", "p", "*", "w", "@">>}

StripHosts == {<<>>, <<"h">>, <<"h", ":", "8", "0">>}

StripTails == {<<>>, <<" ">>, <<":", " ", "E", "O", "F">>, <<"/", "p", "o", "o", "l", "s", ":", " ", "E", "O", "F">>}

StripInputs ==
    {p \o sc \o u \o h \o t :
        p \in StripPrefixes, sc \in StripSchemes, u \in StripUsers,
        h \in StripHosts, t \in StripTails}

\* stripurl(inputstring), from the call to its return or its panic
StripCall ==
    /\ strip.pc = "call"
    /\ strip' = [strip EXCEPT !.pc = "done", !.out = stripurl(strip.input)]

InitStrip ==
    /\ InitConn(1)
    /\ NoStream
    /\ NoClassified
    /\ NoDB
    /\ NoOpening
    /\ \E inputstring \in StripInputs :
          strip = [IdleStrip EXCEPT !.pc = "call", !.input = inputstring]

NextStrip == StripCall /\ UNCHANGED <<connVars, streamVars, classified, db, opening>>

SpecStrip == InitStrip /\ [][NextStrip]_vars

(***************************************************************************)
(* Properties.                                                             *)
(***************************************************************************)
Range(seq) == {seq[i] : i \in 1 .. Len(seq)}

Last(seq) == seq[Len(seq)]

\* every doClientRequest the entry point of c has called has returned
Returned(c) == hist[c].started > 0 /\ Len(hist[c].attempts) = hist[c].started

ArgCountErrors == {"Argument count mismatch", "N1QL: Insufficient args"}

NodesError == "N1QL: Query nodes not responding"

\* the form field of a prepared execution names the statement, not its plan
Named(form) == "prepared" \in DOMAIN form /\ form.prepared # stmt.prepared

\* C1: a doClientRequest that began with N live endpoints and no open
\* transaction never sends to an endpoint that failed earlier in the call,
\* does not give up before all N were tried, and when the first N-1 chosen
\* endpoints failed and the N-th answered, returns the N-th's response.
C1_FailoverReachesLast ==
    \A c \in Callers :
        LET h == hist[c]
            l == loc[c]
            N == Len(h.startAPIs)
            k == Len(h.tried)
        IN  (h.started > 0 /\ h.startTxid = "") =>
              /\ \A i, j \in 1 .. k : i < j => h.tried[j] # h.tried[i]
              /\ (l.pc = "do" => l.request.url \notin Range(h.tried))
              /\ (Returned(c) /\ Last(h.attempts).derr # "" => k = N)
              /\ (Returned(c) /\ k = N /\ h.outcomes[N] = "ok" =>
                    /\ Last(h.attempts).derr = ""
                    /\ Last(h.attempts).resp = h.lastResp
                    /\ Last(h.attempts).url = h.tried[N])

\* C1 witness: three endpoints, two failed, the third served the request
C1_Witness ==
    \E c \in Callers :
        /\ Returned(c)
        /\ hist[c].startTxid = ""
        /\ Len(hist[c].startAPIs) >= 3
        /\ Len(hist[c].tried) = Len(hist[c].startAPIs)
        /\ Last(hist[c].outcomes) = "ok"
        /\ loc[c].pc = "done"
        /\ loc[c].ret.err = ""
        /\ loc[c].ret.resp = hist[c].lastResp

\* C2: for a single caller the live endpoint list is never empty, and an
\* endpoint that failed as the only one left got the terminal error and is
\* still in the list.
C2_ListNeverEmpty ==
    /\ Len(queryAPIs) >= 1
    /\ \A c \in Callers :
          \A i \in 1 .. Len(hist[c].attempts) :
              LET a == hist[c].attempts[i]
              IN  /\ (a.derr # "" => a.derr = NodesError)
                  /\ (a.derr # "" /\ ~a.forced /\ a.numNodes = 1 =>
                         a.url \in Range(queryAPIs))
    /\ \A c \in Callers : loc[c].pc = "remove" => loc[c].numNodes >= 2

\* C2 witness: failover shrank the list to one endpoint, which failed too
C2_Witness ==
    \E c \in Callers :
        /\ loc[c].pc = "done"
        /\ loc[c].ret.err = NodesError
        /\ Len(hist[c].startAPIs) >= 2
        /\ Len(queryAPIs) = 1
        /\ queryAPIs[1] = Last(hist[c].tried)

\* C3: n1qlStmt.Query and QueryRaw execute at most twice; the second
\* execution follows a failed first one that used the cached name, uses the
\* inline plan with the name cleared, and its failure is what the caller gets.
C3_QueryRetriesOnce ==
    \A c \in Callers :
        LET h == hist[c]
            l == loc[c]
        IN  l.op \in {"StmtQuery", "StmtQueryRaw"} =>
              /\ h.started <= 2
              /\ (h.started = 2 =>
                    /\ h.attempts[1].err # ""
                    /\ Named(h.attempts[1].form)
                    /\ stmt.name = ""
                    /\ l.requestValues.prepared = stmt.prepared)
              /\ (l.pc = "done" /\ h.started = 2 =>
                    /\ Len(h.attempts) = 2
                    /\ ~Named(h.attempts[2].form)
                    /\ l.ret.err = h.attempts[2].err)

\* C3 witness: both executions failed and the second failure was returned
C3_Witness ==
    \E c \in Callers :
        /\ loc[c].op \in {"StmtQuery", "StmtQueryRaw"}
        /\ loc[c].pc = "done"
        /\ hist[c].started = 2
        /\ loc[c].ret.err # ""

\* C4: n1qlStmt.Exec and ExecRaw, when the execution by the cached name
\* fails, clear the name and execute once more with the inline plan.
C4_ExecRetriesOnce ==
    \A c \in Callers :
        LET h == hist[c]
            l == loc[c]
        IN  (/\ l.op \in {"StmtExec", "StmtExecRaw"}
             /\ l.pc = "done"
             /\ Len(h.attempts) > 0
             /\ h.attempts[1].err # ""
             /\ Named(h.attempts[1].form)) =>
              /\ Len(h.attempts) = 2
              /\ stmt.name = ""
              /\ ~Named(h.attempts[2].form)

\* C5: a call with fewer arguments than placeholders, zero arguments
\* included, sends no request and fails with an argument-count error.
C5_TooFewArgsFail ==
    \A c \in Callers :
        LET h == hist[c]
            l == loc[c]
        IN  (l.op \in ConnOps \cup StmtOps /\ h.A < h.C) =>
              /\ l.pc \in {"idle", "done"}
              /\ h.sent = 0
              /\ (l.pc = "done" => l.ret.err \in ArgCountErrors)

\* C6: a call with more arguments than placeholders does not fail with an
\* argument-count error, and its request carries the arguments beyond the
\* C-th, in their order, as its "args" field.
C6_ExtraArgsForwarded ==
    \A c \in Callers :
        LET h == hist[c]
            l == loc[c]
            extra == SubSeq(h.args, h.C + 1, h.A)
        IN  (l.op \in ConnOps \cup StmtOps /\ h.A > h.C) =>
              /\ (l.pc = "done" => l.ret.err \notin ArgCountErrors)
              /\ (l.pc = "do" =>
                    /\ "args" \in DOMAIN l.request.form
                    /\ l.request.form.args = buildPositionalArgList(extra))

\* C7: a request is sent to the sticky endpoint while a transaction is
\* open, unless it is the fixed no-op statement, and to an endpoint of the
\* live list while none is open.
C7_StickyRouting ==
    \A c \in Callers :
        loc[c].pc = "do" =>
          /\ (txid # "" /\ loc[c].query # N1QL_DEFAULT_STATEMENT =>
                loc[c].request.url = txService)
          /\ (txid = "" => loc[c].request.url \in Range(queryAPIs))

\* C7 witness: a statement goes to the sticky endpoint although the list
\* holds another endpoint before it
C7_Witness ==
    \E c \in Callers :
        /\ loc[c].pc = "do"
        /\ txid # ""
        /\ loc[c].query # N1QL_DEFAULT_STATEMENT
        /\ Len(queryAPIs) >= 2
        /\ txService # queryAPIs[1]
        /\ loc[c].request.url = txService

\* C8: while a transaction is open every request for it, a statement text
\* or the execution of a prepared statement, carries the current txid.
C8_TxidOnEveryRequest ==
    \A c \in Callers :
        (/\ loc[c].pc = "do"
         /\ txid # ""
         /\ loc[c].query # N1QL_DEFAULT_STATEMENT) =>
           /\ "txid" \in DOMAIN loc[c].request.form
           /\ loc[c].request.form.txid = txid

\* C9: when a transaction-start statement got a response that carries a
\* txid, the connection holds that txid and the serving endpoint; when a
\* commit or rollback got a response, both are empty; and with no
\* transaction open a request goes to the endpoint picked from the live list.
C9_TxContextFollowsStatements ==
    \A c \in Callers :
        LET l == loc[c]
            h == hist[c]
        IN  /\ (l.pc = "done" /\ Returned(c) /\ Last(h.attempts).derr = "" =>
                  LET a == Last(h.attempts)
                  IN  /\ (a.stmtType = TX_START /\ getTxid(a.resp) # "" =>
                            txid = getTxid(a.resp) /\ txService = a.url)
                      /\ (a.stmtType \in {TX_COMMIT, TX_ROLLBACK} =>
                            txid = "" /\ txService = ""))
            /\ (l.pc = "do" /\ txid = "" =>
                  /\ ~l.forced
                  /\ l.selectedNode < Len(queryAPIs)
                  /\ l.request.url = queryAPIs[l.selectedNode + 1])

\* C9 witness: a commit has closed the transaction a start had opened
C9_Witness ==
    \E c \in Callers :
        /\ loc[c].pc = "done"
        /\ Returned(c)
        /\ Last(hist[c].attempts).stmtType = TX_COMMIT
        /\ Last(hist[c].attempts).derr = ""
        /\ hist[c].startTxid # ""
        /\ txid = ""
        /\ txService = ""

\* C10: a transport failure ends the call with the terminal error only
\* when the request was sent to the only endpoint left or was routed to the
\* sticky endpoint; otherwise the call fails over.
C10_TerminalOnlyWhenLastOrSticky ==
    \A c \in Callers :
        \A i \in 1 .. Len(hist[c].attempts) :
            LET a == hist[c].attempts[i]
            IN  a.derr # "" => (a.forced \/ a.numNodes = 1)

(***************************************************************************)
(* Properties of the result stream.                                        *)
(***************************************************************************)
\* the rows of the response, when its "results" is an array
ResultsArray == rows.results.kind = "Array"
NumResults == Len(rows.results.elems)

\* the consumer sees exactly the N result rows: the first N calls of Next()
\* return true, the later ones false, and Err() is nil after them
SeesAllRows ==
    /\ \A i \in 1 .. Len(nexts) : nexts[i].ok <=> i <= NumResults
    /\ (Len(nexts) > NumResults => Err(rows) = "")

\* C11 as stated: for a non-passthrough response with N result rows, no
\* server errors and no decode error, a consumer that does not call Close
\* sees exactly N calls of Next() return true, then false, and Err() is nil
\* afterwards.
C11_DrainsAllRows ==
    (~body.mode /\ ~body.errors /\ ResultsArray /\ ~rows.closed) => SeesAllRows

\* a row Next() can lay out in the columns of the signature: any row when
\* there is one column, else an object with no more fields, or an array
\* with no more elements, than there are columns
Fits(r) ==
    LET numColumns == Len(Columns(rows.signature))
    IN  \/ numColumns = 1
        \/ r.kind = "Object" /\ Cardinality(DOMAIN r.m) <= numColumns
        \/ r.kind = "Array" /\ Len(r.elems) <= numColumns
        \/ r.kind \notin {"Object", "Array"}

\* C11 as amended: the same, for a response all of whose rows fit the
\* signature.
C11_DrainsFittingRows ==
    (/\ ~body.mode /\ ~body.errors /\ ResultsArray /\ ~rows.closed
     /\ \A i \in 1 .. NumResults : Fits(rows.results.elems[i]))
        => SeesAllRows

\* a response of two rows was drained without passthrough mode
C11_Witness ==
    /\ ~body.mode /\ ~body.errors /\ ~rows.closed
    /\ ResultsArray
    /\ NumResults = 2
    /\ nexts = <<Outcome(TRUE, "results", 1), Outcome(TRUE, "results", 2),
                 Outcome(FALSE, "closed", 0)>>
    /\ Err(rows) = ""

\* the place of an element in the order the worker sends in
Rank(from) ==
    CASE from = "extras" -> 1
      [] from = "metrics" -> 2
      [] from = "results" -> 3
      [] from = "errors" -> 4

\* the calls of Next() that took an element of resultChan
Taken == {i \in 1 .. Len(nexts) : nexts[i].from \in {"extras", "metrics", "results", "errors"}}

\* C12: Next() delivers the data rows in the order of the results array (and
\* the current row is made of that element); in passthrough mode the extras
\* row and then the metrics row are delivered before any data row, and the
\* errors row after all data rows.
C12_DeliveryOrder ==
    /\ \A i, j \in Taken :
          i < j => /\ Rank(nexts[i].from) <= Rank(nexts[j].from)
                   /\ (nexts[i].from = nexts[j].from => nexts[i].idx < nexts[j].idx)
    /\ \A i \in Taken :
          nexts[i].from = "results" /\ rows.passthrough
             => i >= 3 /\ \E e, m \in Taken :
                             /\ e < m /\ m < i
                             /\ nexts[e] = Outcome(TRUE, "extras", 0)
                             /\ nexts[m] = Outcome(TRUE, "metrics", 0)
    /\ \A i \in Taken :
          nexts[i].from # "results" /\ rows.passthrough => nexts[i].ok
    /\ (last.op = "Next" /\ last.ok /\ nexts[Len(nexts)].from = "results")
          => rows.curValues =
                Slice(RowValues(rows.results.elems[nexts[Len(nexts)].idx],
                                Columns(rows.signature), rows.passthrough,
                                rows.rowsSent - 1).dest)

\* a passthrough stream with two data rows was drained: extras, metrics, the
\* rows, errors, and then the end
C12_Witness ==
    /\ rows.passthrough
    /\ Len(nexts) = 6
    /\ [i \in 1 .. 6 |-> nexts[i].from] =
          <<"extras", "metrics", "results", "results", "errors", "closed">>
    /\ nexts[3].idx = 1 /\ nexts[4].idx = 2
    /\ nexts[3].ok /\ nexts[4].ok
    /\ rows.results.elems[1] # rows.results.elems[2]

\* what a call of Next() would do now: wait, or return with this outcome
\* and these values for the current row
NextReturn ==
    IF resultChan.buf # <<>>
    THEN [from |-> Head(resultChan.buf).from,
          got |-> RowValues(Head(resultChan.buf).val, Columns(rows.signature),
                            rows.passthrough, rows.rowsSent)]
    ELSE IF resultChan.closed THEN [from |-> "closed"]
    ELSE IF worker.pc = "sendErr" THEN [from |-> "err", err |-> worker.err]
    ELSE [from |-> "waits"]

\* the worker has closed the channel and the consumer has taken all of it
Exhausted == resultChan.closed /\ resultChan.buf = <<>>

\* a step that is a call of Close()
CloseStep == last'.op = "Close" /\ (last' # last \/ rows' # rows)

\* C13: Close() returns nil on every call; it sets the stop flag and nothing
\* else, so a second Close() changes no state of the stream at all, and
\* neither it nor a Close() of an exhausted stream changes what Next(), Err()
\* or Columns() return afterwards.
C13_CloseIdempotent ==
    [][/\ last'.op = "Close" => last'.err = "" /\ rows'.closed
       /\ CloseStep =>
             /\ rows' = [rows EXCEPT !.closed = TRUE]
             /\ (rows.closed => rows' = rows)
             /\ UNCHANGED <<resultChan, worker, nexts>>
             /\ NextReturn' = NextReturn
             /\ Err(rows') = Err(rows)
             /\ Columns(rows'.signature) = Columns(rows.signature)
             /\ (Exhausted => Exhausted' /\ worker'.pc = "done")]_vars

\* Close() was called again on an exhausted stream that was already closed
C13_Witness ==
    /\ last.op = "Close"
    /\ last.again
    /\ Exhausted
    /\ nexts # <<>>
    /\ nexts[Len(nexts)].from = "closed"

\* C14: a decode failure of the results payload ends the iteration: the
\* Next() that observes it returns false, every later Next() returns false,
\* and Err() returns the decode error.
C14_DecodeErrorEndsStream ==
    \A i \in 1 .. Len(nexts) :
        nexts[i].from = "err"
           => /\ ~nexts[i].ok
              /\ \A j \in i + 1 .. Len(nexts) : ~nexts[j].ok
              /\ Err(rows) = worker.err

\* the calls of Next() that returned true
Delivered == {i \in 1 .. Len(nexts) : nexts[i].ok}

\* C15 as stated: the errors payload is delivered as a final row only in
\* passthrough mode; without it Next() delivers only the elements of the
\* results array, also when the response carries errors.
C15_ErrorsRowOnlyInPassthrough ==
    ~body.mode => \A i \in Delivered : nexts[i].from = "results"

\* C15 as amended: the errors payload is delivered as the final row in
\* passthrough mode, and without passthrough mode exactly when the response
\* carries errors; a response without errors and without passthrough mode
\* delivers only the elements of the results array.
C15_ErrorsRowWhenPresent ==
    /\ (~body.mode /\ ~body.errors) => \A i \in Delivered : nexts[i].from = "results"
    /\ \A i \in 1 .. Len(nexts) :
          nexts[i].from = "errors"
             => /\ body.mode \/ body.errors
                /\ nexts[i].ok
                /\ \A j \in i + 1 .. Len(nexts) : nexts[j].from = "closed"
    /\ \A i \in 1 .. Len(nexts) :
          nexts[i].from = "closed" /\ (body.mode \/ body.errors)
             => \E j \in 1 .. i - 1 : nexts[j].from = "errors"

\* without passthrough mode a response with a data row and errors was
\* drained: the row, the errors row, the end
C15_Witness ==
    /\ ~body.mode
    /\ body.errors
    /\ Len(nexts) = 3
    /\ nexts[1] = Outcome(TRUE, "results", 1)
    /\ nexts[2] = Outcome(TRUE, "errors", 0)
    /\ nexts[3].from = "closed"
    /\ rows.errors = ServerErrors

\* C16: Columns() returns the keys of an object signature in ascending
\* order of their bytes, whatever the order they were declared in (the
\* decoded signature is a map and keeps none): name, abv, is_twenty gives
\* abv, is_twenty, name; a string signature and a null signature give
\* exactly one column each.
C16_ColumnsSorted ==
    last.op = "Columns"
       => LET sig == rows.signature
              cols == last.cols
          IN  /\ rows.columns = cols
              /\ sig.kind = "Object"
                    => /\ Len(cols) = Cardinality(DOMAIN sig.m)
                       /\ {cols[i] : i \in 1 .. Len(cols)} = DOMAIN sig.m
                       /\ \A i, j \in 1 .. Len(cols) :
                             i < j => BytesLess(Bytes(cols[i]), Bytes(cols[j]))
              /\ sig = BeerSignature => cols = <<"abv", "is_twenty", "name">>
              /\ sig = ComplexSignature => cols = <<"fa", "fb">>
              /\ sig.kind = "String" => cols = <<sig.s>>
              /\ sig.kind = "Null" => Len(cols) = 1

\* Columns() was called on the stream of select name, abv, ... as is_twenty
C16_Witness ==
    /\ last.op = "Columns"
    /\ rows.signature = BeerSignature
    /\ last.cols[1] = "abv"

\* the element of the results array the latest Next() made the current row
CurrentIsDataRow ==
    /\ nexts # <<>>
    /\ nexts[Len(nexts)].ok
    /\ nexts[Len(nexts)].from = "results"
CurrentRow == rows.results.elems[nexts[Len(nexts)].idx]

\* C17: after Next() returned true for an object row (one that has a value
\* for every column), destination i of Scan receives the row's value for
\* the i-th name of the sorted column list, whether or not the consumer
\* has called Columns().
C17_ScanFollowsSortedColumns ==
    LET cols == Columns(rows.signature)
    IN  (/\ CurrentIsDataRow
         /\ CurrentRow.kind = "Object"
         /\ \A i \in 1 .. Len(cols) : cols[i] \in DOMAIN CurrentRow.m)
           => /\ rows.curValues = Slice([i \in 1 .. Len(cols) |-> CurrentRow.m[cols[i]]])
              /\ (last.op = "Scan" /\ Len(last.dest) <= Len(cols) /\ last.err = "")
                    => \A i \in 1 .. Len(last.dest) :
                          last.out[i] = ScanValue(last.dest[i], i - 1,
                                                  CurrentRow.m[cols[i]]).val

(***************************************************************************)
(* Properties of Scan's conversions.                                       *)
(***************************************************************************)
\* the compact JSON text of the values scanned in the model
CompactText(v) ==
    CASE v = Null -> "null"
      [] v = JBool(TRUE) -> "true"
      [] v = JBool(FALSE) -> "false"
      [] v = JNumber(7) -> "7"
      [] v = JString("Baltika 6") -> "\"Baltika 6\""
      [] v = JString("") -> "\"\""
      [] v = OneTwoThree -> "[1,2,3]"
      [] v = AB -> "{\"a\":\"b\",\"c\":\"d\"}"
      [] v = Complex -> "{\"fa\":[1,2,3],\"fb\":{\"a\":\"b\",\"c\":\"d\"}}"

\* the claim's table: the kinds of value a destination type accepts
AcceptsAsStated(d, v) ==
    \/ d = "float64" /\ v.kind = "Number"
    \/ d = "bool" /\ v.kind = "Bool"
    \/ d = "string" /\ v.kind \in {"String", "Array", "Object"}

\* the table of the code: a string destination accepts every kind
Accepts(d, v) ==
    \/ d = "float64" /\ v.kind = "Number"
    \/ d = "bool" /\ v.kind = "Bool"
    \/ d = "string"

\* what an accepting destination holds afterwards
Converted(d, v) ==
    IF d = "string" /\ v.kind # "String" THEN JString(CompactText(v)) ELSE v

\* a Scan() with no more destinations than the current row has values
\* follows the table accepts: it fails exactly when some pair is not in
\* the table, and every destination before the first such pair holds the
\* converted value
FollowsTable(accepts(_, _)) ==
    (last.op = "Scan" /\ ~rows.curValues.isNil
       /\ Len(last.dest) <= Len(rows.curValues.elems))
       => LET vals == rows.curValues.elems
              bad == {i \in 1 .. Len(last.dest) : ~accepts(last.dest[i], vals[i])}
          IN  /\ last.err = "" <=> bad = {}
              /\ \A i \in 1 .. Len(last.dest) :
                    (\A j \in bad : i < j)
                       => last.out[i] = Converted(last.dest[i], vals[i])

\* C18 as stated: a float destination accepts only Number, a bool
\* destination only Bool, a string destination String verbatim and Array
\* or Object as compact JSON text; every other pair is a scan error.
C18_ScanTableAsStated == FollowsTable(AcceptsAsStated)

\* C18 as amended: a string destination accepts a value of every kind,
\* String verbatim and any other value as its compact JSON text; a float
\* destination accepts only Number, a bool destination only Bool, and a
\* destination of any other type nothing.
C18_ScanTable == FollowsTable(Accepts)

\* the row of TestComplex scanned into two strings
C18_Witness ==
    /\ last.op = "Scan"
    /\ last.dest = <<"string", "string">>
    /\ rows.curValues = Slice(<<OneTwoThree, AB>>)
    /\ last.err = ""
    /\ last.out = <<JString("[1,2,3]"), JString("{\"a\":\"b\",\"c\":\"d\"}")>>

\* a step that is a call of Scan() which returned an error although there
\* is a current row
FailedScanStep ==
    /\ last'.op = "Scan"
    /\ last'.err # ""
    /\ ~rows.curValues.isNil
    /\ nexts' = nexts
    /\ worker' = worker

\* C19: a Scan() that fails with a type mismatch or because it was given
\* more destinations than the row has values is not fatal: Err() and the
\* current row are as before, so a later Scan() finds the same row, and
\* the channel and the worker, on which later Next() calls depend, are
\* untouched.
C19_ScanFailureNotFatal ==
    [][FailedScanStep =>
          /\ Err(rows') = Err(rows)
          /\ rows'.curValues = rows.curValues
          /\ rows' = rows
          /\ resultChan' = resultChan
          /\ \A dest \in DestLists : Scan(rows', dest) = Scan(rows, dest)
          /\ NextReturn' = NextReturn]_vars

\* a Scan() into a float64 failed on a current row whose first value is
\* not a number
C19_Witness ==
    /\ last.op = "Scan"
    /\ last.err = "Cannot assign to *float64 at index 0 of Scan()"
    /\ ~rows.curValues.isNil
    /\ rows.iterError = ""

(***************************************************************************)
(* Properties of txStatementType.                                          *)
(***************************************************************************)
RECURSIVE TextLen(_)
\* the length of the text of a token sequence
TextLen(toks) ==
    IF toks = <<>> THEN 0
    ELSE IF Len(toks) = 1 THEN Len(toks[1])
    ELSE Len(toks[1]) + 1 + TextLen(Tail(toks))

\* the tokens after the first that begin within the first 32 characters
\* of the text
FollowingTokens(toks) ==
    Cardinality({i \in 2 .. Len(toks) : TextLen(SubSeq(toks, 1, i - 1)) + 1 < 32})

\* the spellings of a keyword: any letter case, with or without ';'
IsStartWord(t) ==
    t \in {"start", "START", "start;", "START;", "begin", "BEGIN", "begin;",
           "BEGIN;", "Begin"}
IsCommitWord(t) == t \in {"commit", "COMMIT", "commit;", "COMMIT;", "Commit;"}
IsRollbackWord(t) ==
    t \in {"rollback", "ROLLBACK", "rollback;", "ROLLBACK;", "Rollback"}

\* C20: txStatementType classifies a statement by the first token of its
\* trimmed text cut to 32 characters, in lower case: start or begin is a
\* transaction start only when at least one more token follows, commit is
\* always a commit, rollback is a rollback only when at most one more token
\* follows, everything else is none; a trailing ';' on the first token and
\* the letter case do not change the result.
C20_TxStatementType ==
    classified.done
       => LET toks == classified.query
              more == FollowingTokens(toks)
          IN  classified.type =
                 IF toks = <<>> THEN TX_NONE
                 ELSE IF IsStartWord(toks[1])
                      THEN (IF more >= 1 THEN TX_START ELSE TX_NONE)
                 ELSE IF IsCommitWord(toks[1]) THEN TX_COMMIT
                 ELSE IF IsRollbackWord(toks[1])
                      THEN (IF more <= 1 THEN TX_ROLLBACK ELSE TX_NONE)
                 ELSE TX_NONE

\* a rollback to a savepoint, in upper case and with a ';', was classified
\* as no transaction statement
C20_Witness ==
    /\ classified.done
    /\ classified.query = <<"ROLLBACK;", "to", "savepoint", "s1">>
    /\ classified.type = TX_NONE

(***************************************************************************)
(* Properties of the n1qlDB and of its statements.                         *)
(***************************************************************************)
\* caller A is in, or has just returned from, a call on its statement
InStmtCall == loc["A"].op \in StmtOps /\ loc["A"].pc # "idle"

\* the call of caller A has failed without a request
FailedUnsent ==
    /\ loc["A"].pc = "done"
    /\ loc["A"].ret.err # ""
    /\ hist["A"].sent = 0
    /\ hist["A"].started = 0

\* C21: after n1qlDB.Close, Query, Exec, QueryRaw and ExecRaw on a statement
\* prepared before the Close fail and send no request.
C21_CloseInvalidatesStatements ==
    (~db.conn /\ InStmtCall) => FailedUnsent

\* C22: a statement without a plan body fails Query, QueryRaw, Exec and
\* ExecRaw with an error and without a request, and a statement that
\* Prepare has returned has a plan body.
C22_NoPlanFailsFast ==
    /\ (InStmtCall /\ stmt.prepared = "")
           => /\ FailedUnsent
              /\ loc["A"].ret.err = "N1QL: Prepared statement not found"
    /\ (loc["A"].op = "Prepare" /\ loc["A"].pc = "done" /\ loc["A"].ret.err = "")
           => stmt.exists /\ stmt.prepared # ""

\* ExecRaw was called on a statement that Close had cleared
C22_Witness ==
    /\ InStmtCall
    /\ stmt.prepared = ""
    /\ loc["A"].op = "StmtExecRaw"
    /\ loc["A"].pc = "done"

\* a step of n1qlDB.Begin
BeginStep == db'.op = "Begin" /\ db' # db

\* C25: n1qlDB.Begin fails when the connection is closed or no transaction
\* is open and returns the handle otherwise; it sends no request and leaves
\* txid, the sticky endpoint and the endpoint list alone.
C25_Begin ==
    [][BeginStep =>
          /\ (db'.err # "") <=> (~db.conn \/ txid = "")
          /\ db'.err # "" => db'.err = errorNoConnection
          /\ UNCHANGED <<queryAPIs, txid, txService, stmt, loc, hist>>]_vars

\* Begin has returned the handle in a transaction
C25_Witness ==
    /\ db = [conn |-> TRUE, op |-> "Begin", err |-> "", call |-> NoCall]
    /\ txid = "t1"
    /\ txService # ""

(***************************************************************************)
(* Properties of concurrent requests on one connection.                    *)
(***************************************************************************)
\* C26: with two requests running concurrently, every endpoint selection
\* indexes inside the live endpoint list (no rand.Intn(0), no index out of
\* range) and the list never becomes empty.
C26_ConcurrentSelectionInRange ==
    /\ queryAPIs # <<>>
    /\ \A c \in Callers : loc[c].pc # "panic"

\* caller c removes an endpoint from the list in this step
RemoveStep(c) == loc[c].pc = "remove" /\ loc'[c].pc = "select"

\* C27: with two requests running concurrently, the endpoint that failover
\* removes is the endpoint whose request failed.
C27_RemovesTheFailedEndpoint ==
    [][\A c \in Callers :
          RemoveStep(c) =>
              Range(queryAPIs) \ Range(queryAPIs') = {loc[c].queryAPI}]_vars

(***************************************************************************)
(* Properties of the worker of a stream.                                   *)
(***************************************************************************)
\* C28: after Close() the worker eventually stops and closes the row queue,
\* also when the consumer makes no further call of Next().
C28_WorkerStopsAfterClose ==
    [](rows.closed => <>(worker.pc = "done" /\ resultChan.closed))

\* the worker is at a push on resultChan
Pushing ==
    \/ worker.pc = "extras" /\ rows.extras # Null
    \/ worker.pc = "metrics" /\ rows.metrics # Null
    \/ worker.pc = "row"
    \/ worker.pc = "errors" /\ rows.errors # Null

\* C29: the queue between the worker and the consumer never holds more than
\* one row, and while it holds one the worker stays at its push until a
\* Next() of the consumer takes the pending row.
C29_QueueDepthOne ==
    /\ [](Len(resultChan.buf) <= 1)
    /\ [][(Pushing /\ Len(resultChan.buf) = 1) =>
             /\ worker'.pc = worker.pc
             /\ resultChan' # resultChan =>
                    /\ last'.op = "Next"
                    /\ Len(nexts') = Len(nexts) + 1 \/ last'.panic
                    /\ resultChan'.buf = Tail(resultChan.buf)]_vars

\* the consumer has taken a row and the worker waits with the next one at
\* a full queue
C29_Witness ==
    /\ Len(nexts) >= 1
    /\ nexts[1].ok
    /\ Len(resultChan.buf) = 1
    /\ worker.pc = "row"

(***************************************************************************)
(* Termination of doClientRequest.                                         *)
(***************************************************************************)
\* caller A is inside the loop of doClientRequest
Running == loc["A"].pc \in {"select", "pick", "do", "remove"}

\* the loop has ended: doClientRequest has returned, or a response has
\* arrived and getTxid panicked on it
Ended ==
    \/ loc["A"].pc = "done"
    \/ loc["A"].pc = "panic" /\ Last(hist["A"].outcomes) = "ok"

\* the attempts of the running call that failed
Failures ==
    Cardinality({i \in 1 .. Len(hist["A"].outcomes) : hist["A"].outcomes[i] = "fail"})

\* the failed attempts whose endpoint has left the list: all of them, but
\* for the one just made and for the one that ended the call
Removed ==
    IF \/ loc["A"].pc = "remove"
       \/ loc["A"].pc = "done" /\ loc["A"].ret.err = NodesError
    THEN Failures - 1
    ELSE Failures

OpenReturned(kind) == opening.pc = "done" /\ opening.ret.kind = kind

\* C23: an error that Open returns while credentials are configured does
\* not contain the password: the URL in it carries no user information or
\* has the password replaced.
C23_OpenErrorsRedactPassword ==
    (OpenReturned("err") /\ opening.creds.password # <<>>)
        => ~Contains(opening.ret.err, opening.creds.password)

\* the no-op statement went to the first query endpoint, and the list of a
\* returned connection is not empty
NoopToFirst ==
    /\ opening.queryAPIs # <<>>
    /\ opening.sentTo = opening.queryAPIs[1]

\* C24 as stated: Open returns a connection only after the no-op statement
\* sent to the first query endpoint got status 200 and a body that decodes,
\* whether the endpoints were discovered or the input was used directly.
C24_ConnOnlyAfterDecodedNoop ==
    OpenReturned("conn")
        => /\ NoopToFirst
           /\ opening.resp.StatusCode = 200
           /\ opening.resp.body \notin {"unreadable", "garbage"}

\* C24: Open returns a connection only after the no-op statement sent to
\* the first query endpoint got status 200 and, when the input was used
\* directly as the query endpoint, a body that decodes and reports no
\* errors; the endpoint list of a returned connection is not empty.
C24_ConnOnlyAfterNoop ==
    OpenReturned("conn")
        => /\ NoopToFirst
           /\ opening.resp.StatusCode = 200
           /\ opening.direct => opening.resp.body = "ok"

C24_Witness ==
    /\ OpenReturned("conn")
    /\ opening.direct
    /\ opening.creds.password # <<>>
    /\ opening.resp = [StatusCode |-> 200, body |-> "ok"]


(***************************************************************************)
(* Properties of the transaction context.                                  *)
(***************************************************************************)
\* the context that the statement query leaves after the answer of attempt a
ContextFollows(query, a) ==
    /\ (txStatementType(query) = TX_START /\ ~getTxidPanics(a.resp)
            /\ getTxid(a.resp) # "")
          => (txid = getTxid(a.resp) /\ txService = a.url)
    /\ txStatementType(query) \in {TX_COMMIT, TX_ROLLBACK}
          => (txid = "" /\ txService = "")

\* C31: when a call of the n1qlDB has run a transaction statement and got
\* an answer to it, the connection's transaction context is what the
\* statement makes it (the new txid and its endpoint after a start, empty
\* after a commit or rollback), through Query and Exec as through QueryRaw
\* and ExecRaw.
C31_TxContextByEveryEntryPoint ==
    LET l == loc["A"]
        h == hist["A"]
    IN  (l.pc = "done" /\ Returned("A") /\ Last(h.attempts).derr = "")
            => /\ l.op \in {"QueryRaw", "ExecRaw"}
                     => ContextFollows(l.query, Last(h.attempts))
               /\ (l.op \in {"StmtQuery", "StmtExec"} /\ db.call.op # "none")
                     => ContextFollows(db.call.query, Last(h.attempts))


\* C32: while a transaction is open, a step of a transaction-start
\* statement leaves the stored txid and the sticky endpoint as they are
\* (a transport failure may end the transaction, it does not put another
\* in its place).
C32_OneTransactionAtATime ==
    [][\A c \in Callers :
          (txid # "" /\ loc[c].pc = "do" /\ loc[c].stmtType = TX_START
              /\ loc'[c] # loc[c] /\ txid' # "")
            => (txid' = txid /\ txService' = txService)]_vars


C34_StickyEndpointIsLive ==
    /\ [](txid # "" => txService \in Range(queryAPIs))
    /\ [][txid # "" => queryAPIs' = queryAPIs]_vars

\* C34 witness: a transaction-start statement failed over from an endpoint,
\* which left the list, and opened the transaction on another
C34_Witness ==
    /\ txid # ""
    /\ loc["A"].pc = "done"
    /\ loc["A"].stmtType = TX_START
    /\ Len(hist["A"].tried) >= 2
    /\ Len(queryAPIs) < Len(hist["A"].startAPIs)
    /\ txService = Last(hist["A"].tried)


\* new is old without one of its elements, the others in their order
IsWithoutOne(new, old) ==
    /\ Len(new) = Len(old) - 1
    /\ \E i \in 1 .. Len(old) :
          \A j \in 1 .. Len(new) : new[j] = (IF j < i THEN old[j] ELSE old[j + 1])

\* C35: a request whose first attempt got a response leaves the live
\* endpoint list as it was when the request started, and a step changes the
\* list only by taking one endpoint out of it: no endpoint comes back.
C35_ListOnlyShrinksOnFailure ==
    /\ [](LET l == loc["A"]
              h == hist["A"]
          IN  (h.started > 0 /\ Len(h.outcomes) >= 1 /\ h.outcomes[1] = "ok")
                 => queryAPIs = h.startAPIs)
    /\ [][queryAPIs' # queryAPIs =>
             /\ IsWithoutOne(queryAPIs', queryAPIs)
             /\ loc["A"].pc = "remove"]_vars

\* C35 witness: the first attempt of a request failed, its endpoint left
\* the list, and the second attempt was answered by one that stays
C35_Witness ==
    /\ loc["A"].pc = "done"
    /\ hist["A"].outcomes = <<"fail", "ok">>
    /\ IsWithoutOne(queryAPIs, hist["A"].startAPIs)
    /\ hist["A"].tried[1] \notin Range(queryAPIs)
    /\ hist["A"].tried[2] \in Range(queryAPIs)


(***************************************************************************)
(* Properties of a statement whose cached name has been cleared.           *)
(***************************************************************************)
\* a call of Query or QueryRaw that found the statement's name cleared has
\* returned: the name is empty and was not cleared by this call's own
\* first attempt
LaterCall ==
    /\ loc["A"].op \in {"StmtQuery", "StmtQueryRaw"}
    /\ loc["A"].pc = "done"
    /\ stmt.name = ""
    /\ hist["A"].attempts # <<>> => ~Named(hist["A"].attempts[1].form)

\* the call made one attempt, with the inline plan body
OneInlineAttempt ==
    /\ hist["A"].started = 1
    /\ Len(hist["A"].attempts) = 1
    /\ hist["A"].attempts[1].form.prepared = stmt.prepared

\* a cleared name stays cleared: a name appears only with the new statement
\* that a Prepare returns
NameNotRestored ==
    [][(stmt.exists /\ stmt.name = "" /\ stmt'.name # "")
          => (loc["A"].op = "Prepare" /\ loc["A"].pc = "do" /\ loc'["A"].pc = "done")]_vars

\* the errors with which Query and QueryRaw return before any request
UnsentErrors == {"N1QL: Prepared statement not found", "N1QL: Insufficient args"}

\* C36 as stated: a cleared name is never restored, and every later call of
\* Query or QueryRaw on the statement makes exactly one attempt, with the
\* inline plan body.
C36_ClearedNameOneAttempt ==
    /\ [](LaterCall => OneInlineAttempt)
    /\ NameNotRestored

\* C36: a cleared name is never restored; a later call of Query or QueryRaw
\* on the statement makes no attempt when the statement has been closed or
\* the arguments are fewer than its markers, and otherwise exactly one
\* attempt, with the inline plan body.
C36_ClearedNameAtMostOneAttempt ==
    /\ [](LaterCall =>
            IF PlanMissing(stmt) \/ Len(loc["A"].args) < stmt.argCount
            THEN hist["A"].started = 0 /\ loc["A"].ret.err \in UnsentErrors
            ELSE OneInlineAttempt)
    /\ NameNotRestored

\* C36 witness: the name was cleared by an earlier call, and this call's one
\* attempt with the plan body failed without a second attempt
C36_Witness ==
    /\ LaterCall
    /\ OneInlineAttempt
    /\ loc["A"].ret.err # ""
    /\ hist["A"].attempts[1].err # ""


(***************************************************************************)
(* Properties of Next() and Scan() after the end of a stream.              *)
(***************************************************************************)
\* C37: once a Next() has returned false, every later Next() on the stream
\* returns false.
C37_NextFalseIsSticky ==
    \A i \in 1 .. Len(nexts) :
        \A j \in i + 1 .. Len(nexts) : ~nexts[i].ok => ~nexts[j].ok

\* C38: a Scan() before the first Next(), or after a Next() that returned
\* false, fails with "No current row." and hands out no values.
C38_ScanNeedsCurrentRow ==
    (last.op = "Scan" /\ (nexts = <<>> \/ ~Last(nexts).ok))
        => (last.err = "No current row." /\ \A i \in 1 .. Len(last.out) : last.out[i] = Unset)


(***************************************************************************)
(* Properties of a closed n1qlDB.                                          *)
(***************************************************************************)
ClosedOps ==
    {"Prepare", "PrepareExtended", "Query", "Exec", "QueryRaw", "ExecRaw", "Ping"}

\* a call made on the closed n1qlDB has returned the connection-closed error
\* and has sent nothing
RefusedUnsent(c) ==
    /\ loc[c].pc \in {"idle", "done"}
    /\ loc[c].pc = "done" =>
          /\ loc[c].op \in ClosedOps
          /\ loc[c].ret.err = errorNoConnection
          /\ loc[c].ret.resp = NoResp
          /\ hist[c] = NoHist

\* C39: once Close() has succeeded, Prepare, PrepareExtended, Query, Exec,
\* QueryRaw, ExecRaw, Ping and Begin each return the connection-closed error
\* without sending a request, and a further Close() returns that error too.
C39_ClosedDBRefusesCalls ==
    /\ [](~db.conn => /\ RefusedUnsent("A")
                      /\ db.op = "Begin" => db.err = errorNoConnection)
    /\ [][(~db.conn /\ db' # db) =>
             (db'.op \in {"Begin", "Close"} /\ db'.err = errorNoConnection)]_vars

C39_Witness ==
    /\ ~db.conn
    /\ db.op = "Close"
    /\ db.err = errorNoConnection
    /\ loc["A"].pc = "done"
    /\ loc["A"].op = "Query"
    /\ loc["A"].ret.err = errorNoConnection


(***************************************************************************)
(* Properties of stripurl.                                                 *)
(***************************************************************************)
\* the text holds no "http", or no space from the "http" on
NoURLFound(inputstring) ==
    \/ Index(inputstring, <<"h", "t", "t", "p">>) < 0
    \/ Index(From(inputstring, Index(inputstring, <<"h", "t", "t", "p">>)), <<" ">>) < 0

\* the URL found in the text does not parse or has no user-info
NoUserinfo(inputstring) ==
    /\ ~NoURLFound(inputstring)
    /\ maskOnce(inputstring, Index(inputstring, <<"h", "t", "t", "p">>)).kind = "same"

\* C40: stripurl returns a string for every input and never indexes out of
\* range; a text with no "http", with no space after the URL, or with a URL
\* without user-info comes back unchanged; the calls of itself come to an end.
C40_StripurlTotal ==
    strip.pc = "done" =>
        /\ ~strip.out.panic
        /\ ~strip.out.deep
        /\ (NoURLFound(strip.input) \/ NoUserinfo(strip.input))
              => strip.out.s = strip.input

=============================================================================
